---------------------------- MODULE Spec2Model ----------------------------
(***************************************************************************)
(* Model of the streaming protocol translator of github-copilot-proxy.     *)
(*                                                                         *)
(* Spec models one responses-mode stream (handleStreamingResponses in      *)
(* src/routes/openai.ts): the handler up to the upstream call, the outcome *)
(* of the call, and the parser / reader callbacks that translate upstream  *)
(* chat-completion frames into the responses event grammar.                *)
(*                                                                         *)
(* Strings are TLA+ strings; "" stands for every falsy JavaScript value of *)
(* a field (absent, null, empty), which is all the code distinguishes.     *)
(***************************************************************************)
EXTENDS Integers, Sequences, FiniteSets, TLC

(***************************************************************************)
(* Bounds                                                                  *)
(***************************************************************************)
\* number of upstream frames delivered to one stream
MaxFrames == 3

(***************************************************************************)
(* Inputs: upstream frames                                                 *)
(***************************************************************************)
\* delta.content values of upstream frames ("" = no text in the frame)
Fragments == {"", "Hel", "lo", " world"}

\* delta.tool_calls entries: a call opening (id and function name), a
\* second call opening that already carries arguments, an arguments-only
\* continuation, and an entry with an id but neither name nor arguments
ToolCallOpen == [id |-> "call_a", name |-> "get_weather", arguments |-> ""]
ToolCallOpenArgs == [id |-> "call_b", name |-> "search", arguments |-> "{\"q\":"]
ToolCallArgs == [id |-> "", name |-> "", arguments |-> "{\"city\":"]
ToolCallIdOnly == [id |-> "call_a", name |-> "", arguments |-> ""]

ToolCallLists ==
  { <<>>, <<ToolCallOpen>>, <<ToolCallArgs>>, <<ToolCallIdOnly>>,
    <<ToolCallOpen, ToolCallOpenArgs>> }

\* event.data === '[DONE]'
DoneFrame == [kind |-> "done", text |-> "", tool_calls |-> <<>>]
\* event.data on which JSON.parse throws
BadFrame == [kind |-> "bad", text |-> "", tool_calls |-> <<>>]
\* event.data that parses; text is choices[0].delta.content || ''
JsonFrames ==
  { [kind |-> "json", text |-> t, tool_calls |-> tcs] :
      t \in Fragments, tcs \in ToolCallLists }

Frames == {DoneFrame, BadFrame} \cup JsonFrames

\* outcomes of `await fetch(chatUrl, ...)` and of the two checks after it
FetchOutcomes == {"ok", "not_ok", "no_body", "reject"}

(***************************************************************************)
(* State of one handleStreamingResponses call                              *)
(***************************************************************************)
VARIABLES
  pc,                 \* position of the handler / reader
  out,                \* events written with res.write, in order
  headersSent,        \* res.headersSent
  resEnded,           \* res.end() was called
  nextError,          \* status passed to next(error), 0 = next not called
  fetchCalls,         \* number of upstream calls issued
  writesBeforeFetch,  \* Len(out) at the moment fetch was called
  accumulatedText,
  firstChunk,
  completionSent,
  toolCallsReceived,
  totalChunks,
  received,           \* upstream frames handed to onEvent so far
  tracked,            \* tokenCount arguments of the trackRequest calls
  handler,            \* the handler or function this behaviour executes
  callArgs,           \* argument of the function call under way
  callResult,         \* its return value
  upstream,           \* bodies of the upstream calls issued, in order
  errors,             \* errors passed to next(error), in order
  callerGone,         \* the caller closed its connection
  aborted,            \* the upstream request was aborted
  peer,               \* state of a second, concurrent responses stream
  githubToken,        \* auth-service: the GitHub token, "" = null
  copilotToken,       \* auth-service: the Copilot token, NoToken = null
  pendingVerification, \* auth-service: user code shown last, "" = null
  tokenFile,          \* content of the token file on disk
  now,                \* Date.now(), in milliseconds
  refreshCalls,       \* refreshCopilotToken calls awaiting their fetch
  deviceFlows,        \* the initiateDeviceFlow calls made, in order
  requestTimestamps,  \* usage[sessionId].requestTimestamps
  inFlight            \* admitted requests still open, by kind, and the
                      \* time the last stream ended

vars == <<pc, out, headersSent, resEnded, nextError, fetchCalls,
          writesBeforeFetch, accumulatedText, firstChunk, completionSent,
          toolCallsReceived, totalChunks, received, tracked,
          handler, callArgs, callResult, upstream, errors, callerGone,
          aborted, peer, githubToken, copilotToken, pendingVerification,
          tokenFile, now, refreshCalls, deviceFlows, requestTimestamps,
          inFlight>>

\* the state of auth-service and of usage-service
authVars == <<githubToken, copilotToken, pendingVerification, tokenFile,
              refreshCalls, deviceFlows>>
serviceVars == <<authVars, now, requestTimestamps, inFlight>>

\* what a stream handler never touches
requestVars == <<upstream, errors, callerGone, aborted, peer, serviceVars>>

\* copilotToken = null
NoToken == [token |-> "", expires_at |-> 0]

\* no token file
NoFile == [githubToken |-> "", copilotToken |-> NoToken, saved |-> FALSE]

\* the services as the process starts them without a token file
ServiceIdle ==
  /\ githubToken = ""
  /\ copilotToken = NoToken
  /\ pendingVerification = ""
  /\ tokenFile = NoFile
  /\ now = 0
  /\ refreshCalls = {}
  /\ deviceFlows = <<>>
  /\ requestTimestamps = <<>>
  /\ inFlight = [stream |-> 0, plain |-> 0, streamEnded |-> -1]
otherVars == <<handler, callArgs, callResult, requestVars>>

\* no second stream
NoPeer == [current |-> 1]

\* `resp_${uuidv4()}` and `msg_${uuidv4()}` of stream s
ResponseIdOf(s) == IF s = 1 THEN "resp_1" ELSE "resp_2"
OutputIdOf(s) == IF s = 1 THEN "msg_1" ELSE "msg_2"

\* responseId and outputId of the stream whose callback is running
responseId == ResponseIdOf(peer.current)
outputId == OutputIdOf(peer.current)

(***************************************************************************)
(* Events of the responses grammar                                         *)
(***************************************************************************)
\* one res.write(`event: <type>\ndata: {...}`): the event name, the kind of
\* item or object it carries, that object's id, its text / delta / arguments
\* payload and its status
Ev(type, item, id, text, status) ==
  [type |-> type, item |-> item, id |-> id, text |-> text, status |-> status]

CreatedEvent == Ev("response.created", "response", responseId, "", "in_progress")

MessageAddedEvent ==
  Ev("response.output_item.added", "message", outputId, "", "in_progress")

ContentPartAddedEvent ==
  Ev("response.content_part.added", "output_text", outputId, "", "")

\* mutant: the delta event carries the cumulative text
TextDeltaEvent_Cumulative(text) ==
  Ev("response.output_text.delta", "output_text", outputId,
     accumulatedText \o text, "")

TextDeltaEvent(text) ==
  Ev("response.output_text.delta", "output_text", outputId, text, "")

FunctionCallAddedEvent(toolCall) ==
  Ev("response.output_item.added", "function_call", toolCall.id,
     toolCall.arguments, "in_progress")

ArgumentsDeltaEvent(toolCall) ==
  Ev("response.function_call_arguments.delta", "function_call", "",
     toolCall.arguments, "")

ErrorEvent == Ev("error", "error", "", "", "")

\* mutant: response.completed and response.done written in the other order
ClosingEvents_Swapped(text) ==
  << Ev("response.output_text.done", "output_text", outputId, text, ""),
     Ev("response.output_item.done", "message", outputId, text, "completed"),
     Ev("response.done", "response", responseId, text, "completed"),
     Ev("response.completed", "response", responseId, text, "completed") >>

\* the closing sequence, every event carrying the text given
ClosingEvents(text) ==
  << Ev("response.output_text.done", "output_text", outputId, text, ""),
     Ev("response.output_item.done", "message", outputId, text, "completed"),
     Ev("response.completed", "response", responseId, text, "completed"),
     Ev("response.done", "response", responseId, text, "completed") >>

(***************************************************************************)
(* Helpers of onEvent                                                      *)
(***************************************************************************)
\* mutant: the estimate rounds down
EstimatedTokens_Floor(text) == Len(text) \div 4

\* Math.ceil(text.length / 4)
EstimatedTokens(text) == (Len(text) + 3) \div 4

\* the loop over delta.tool_calls: the events it writes
RECURSIVE ToolCallEvents(_)
ToolCallEvents(toolCalls) ==
  IF toolCalls = <<>> THEN <<>>
  ELSE LET toolCall == Head(toolCalls)
           written ==
             IF toolCall.id # "" /\ toolCall.name # ""
               THEN <<FunctionCallAddedEvent(toolCall)>>
             ELSE IF toolCall.arguments # ""
               THEN <<ArgumentsDeltaEvent(toolCall)>>
             ELSE <<>>
       IN  written \o ToolCallEvents(Tail(toolCalls))

\* the loop over delta.tool_calls: the entries pushed to toolCallsReceived
RECURSIVE ToolCallsTracked(_)
ToolCallsTracked(toolCalls) ==
  IF toolCalls = <<>> THEN <<>>
  ELSE LET toolCall == Head(toolCalls)
       IN  (IF toolCall.id # "" /\ toolCall.name # ""
              THEN <<toolCall.id>> ELSE <<>>)
           \o ToolCallsTracked(Tail(toolCalls))

\* mutant: the firstChunk latch is not consulted
TextEvents_NoLatch(text, first) ==
  IF text = "" THEN <<>>
  ELSE <<MessageAddedEvent, ContentPartAddedEvent, TextDeltaEvent(text)>>

\* `if (text) { ... }`: the events written for the text of one frame
TextEvents(text, first) ==
  IF text = "" THEN <<>>
  ELSE (IF first THEN <<MessageAddedEvent, ContentPartAddedEvent>> ELSE <<>>)
       \o <<TextDeltaEvent(text)>>

(***************************************************************************)
(* Init: the request was accepted by POST /responses with stream = true    *)
(***************************************************************************)
\* no stream has written, called or accumulated anything
NoStream ==
  /\ out = <<>>
  /\ headersSent = FALSE
  /\ resEnded = FALSE
  /\ nextError = 0
  /\ fetchCalls = 0
  /\ writesBeforeFetch = 0
  /\ accumulatedText = ""
  /\ firstChunk = TRUE
  /\ completionSent = FALSE
  /\ toolCallsReceived = <<>>
  /\ totalChunks = 0
  /\ received = <<>>
  /\ tracked = <<>>
  /\ upstream = <<>>
  /\ errors = <<>>
  /\ callerGone = FALSE
  /\ aborted = FALSE
  /\ peer = NoPeer
  /\ ServiceIdle

StreamIdle ==
  /\ pc = "start"
  /\ NoStream
  /\ callArgs = <<>>
  /\ callResult = <<>>

Init ==
  /\ StreamIdle
  /\ handler = "responses"

streamState == <<accumulatedText, firstChunk, completionSent,
                 toolCallsReceived, totalChunks, received, tracked>>

(***************************************************************************)
(* handleStreamingResponses up to `await fetch`                            *)
(***************************************************************************)
\* getCopilotToken() returned nothing usable: next(error) with status 401
StartNoToken ==
  /\ handler = "responses"
  /\ pc = "start"
  /\ pc' = "rejected"
  /\ nextError' = 401
  /\ UNCHANGED <<out, headersSent, resEnded, fetchCalls, writesBeforeFetch,
                 streamState>>
  /\ UNCHANGED otherVars

\* mutant: the upstream call is issued before response.created is written
StartStream_FetchFirst ==
  /\ handler = "responses"
  /\ pc = "start"
  /\ headersSent' = TRUE
  /\ writesBeforeFetch' = Len(out)
  /\ fetchCalls' = fetchCalls + 1
  /\ out' = Append(out, CreatedEvent)
  /\ pc' = "awaitFetch"
  /\ UNCHANGED <<resEnded, nextError, streamState>>
  /\ UNCHANGED otherVars

\* headers flushed, response.created written, upstream call issued
StartStream ==
  /\ handler = "responses"
  /\ pc = "start"
  /\ headersSent' = TRUE
  /\ out' = Append(out, CreatedEvent)
  /\ writesBeforeFetch' = Len(out')
  /\ fetchCalls' = fetchCalls + 1
  /\ pc' = "awaitFetch"
  /\ UNCHANGED <<resEnded, nextError, streamState>>
  /\ UNCHANGED otherVars

(***************************************************************************)
(* the catch block of handleStreamingResponses                             *)
(***************************************************************************)
CatchError ==
  IF ~headersSent
    THEN /\ nextError' = 500
         /\ pc' = "rejected"
         /\ UNCHANGED <<out, resEnded>>
    ELSE /\ out' = Append(out, ErrorEvent)
         /\ resEnded' = TRUE
         /\ pc' = "failed"
         /\ UNCHANGED nextError

(***************************************************************************)
(* fetch settles                                                           *)
(***************************************************************************)
\* response.ok with a body: the parser is created, the handlers attached
FetchOk ==
  /\ handler = "responses"
  /\ pc = "awaitFetch"
  /\ pc' = "streaming"
  /\ UNCHANGED <<out, headersSent, resEnded, nextError, fetchCalls,
                 writesBeforeFetch, streamState>>
  /\ UNCHANGED otherVars

\* fetch rejects, !response.ok or !response.body: thrown into the catch
FetchFails(outcome) ==
  /\ handler = "responses"
  /\ pc = "awaitFetch"
  /\ outcome # "ok"
  /\ CatchError
  /\ UNCHANGED <<headersSent, fetchCalls, writesBeforeFetch, streamState>>
  /\ UNCHANGED otherVars

(***************************************************************************)
(* parser onEvent, called from reader.on('data')                           *)
(***************************************************************************)
\* mutant: the [DONE] branch does not set completionSent
OnEventDone_NoLatch ==
  IF completionSent
    THEN UNCHANGED <<out, completionSent>>
    ELSE /\ UNCHANGED completionSent
         /\ out' = out \o ClosingEvents(accumulatedText)

\* data === '[DONE]'
OnEventDone ==
  IF completionSent
    THEN UNCHANGED <<out, completionSent>>
    ELSE /\ completionSent' = TRUE
         /\ out' = out \o ClosingEvents(accumulatedText)

\* mutant: accumulatedText is assigned the fragment instead of extended by it
OnEventJson_Overwrite(frame) ==
  /\ out' = out \o ToolCallEvents(frame.tool_calls)
                \o TextEvents(frame.text, firstChunk)
  /\ toolCallsReceived' = toolCallsReceived \o ToolCallsTracked(frame.tool_calls)
  /\ firstChunk' = IF frame.text # "" THEN FALSE ELSE firstChunk
  /\ accumulatedText' = IF frame.text # "" THEN frame.text ELSE accumulatedText
  /\ tracked' = IF frame.text # ""
                  THEN Append(tracked, EstimatedTokens(frame.text))
                  ELSE tracked

\* the try block for a frame that parses
OnEventJson(frame) ==
  /\ out' = out \o ToolCallEvents(frame.tool_calls)
                \o TextEvents(frame.text, firstChunk)
  /\ toolCallsReceived' = toolCallsReceived \o ToolCallsTracked(frame.tool_calls)
  /\ firstChunk' = IF frame.text # "" THEN FALSE ELSE firstChunk
  /\ accumulatedText' = accumulatedText \o frame.text
  /\ tracked' = IF frame.text # ""
                  THEN Append(tracked, EstimatedTokens(frame.text))
                  ELSE tracked

\* mutant: the parse error is swallowed, nothing is written
OnEventBad_Silent ==
  out' = out

\* the catch block for a frame on which JSON.parse throws
OnEventBad ==
  out' = Append(out, ErrorEvent)

OnData(frame) ==
  /\ handler = "responses"
  /\ pc = "streaming"
  /\ Len(received) < MaxFrames
  /\ totalChunks' = totalChunks + 1
  /\ received' = Append(received, frame)
  /\ CASE frame.kind = "done" ->
            /\ OnEventDone
            /\ UNCHANGED <<accumulatedText, firstChunk, toolCallsReceived, tracked>>
       [] frame.kind = "json" ->
            /\ OnEventJson(frame)
            /\ UNCHANGED completionSent
       [] frame.kind = "bad" ->
            /\ OnEventBad
            /\ UNCHANGED <<accumulatedText, firstChunk, completionSent,
                           toolCallsReceived, tracked>>
  /\ UNCHANGED <<pc, headersSent, resEnded, nextError, fetchCalls,
                 writesBeforeFetch>>
  /\ UNCHANGED otherVars

(***************************************************************************)
(* reader.on('end') and reader.on('error')                                 *)
(***************************************************************************)
\* mutant: the end handler does not consult completionSent
OnEnd_NoGuard ==
  /\ handler = "responses"
  /\ pc = "streaming"
  /\ IF Len(accumulatedText) > 0
       THEN /\ completionSent' = TRUE
            /\ out' = out \o ClosingEvents(accumulatedText)
       ELSE UNCHANGED <<out, completionSent>>
  /\ resEnded' = TRUE
  /\ pc' = "ended"
  /\ UNCHANGED <<headersSent, nextError, fetchCalls, writesBeforeFetch,
                 accumulatedText, firstChunk, toolCallsReceived, totalChunks,
                 received, tracked>>
  /\ UNCHANGED otherVars

OnEnd ==
  /\ handler = "responses"
  /\ pc = "streaming"
  /\ IF Len(accumulatedText) > 0 /\ ~completionSent
       THEN /\ completionSent' = TRUE
            /\ out' = out \o ClosingEvents(accumulatedText)
       ELSE UNCHANGED <<out, completionSent>>
  /\ resEnded' = TRUE
  /\ pc' = "ended"
  /\ UNCHANGED <<headersSent, nextError, fetchCalls, writesBeforeFetch,
                 accumulatedText, firstChunk, toolCallsReceived, totalChunks,
                 received, tracked>>
  /\ UNCHANGED otherVars

OnError ==
  /\ handler = "responses"
  /\ pc = "streaming"
  /\ out' = Append(out, ErrorEvent)
  /\ resEnded' = TRUE
  /\ pc' = "errored"
  /\ UNCHANGED <<headersSent, nextError, fetchCalls, writesBeforeFetch,
                 streamState>>
  /\ UNCHANGED otherVars

(***************************************************************************)
(* Specification                                                           *)
(***************************************************************************)
Next ==
  \/ StartNoToken
  \/ StartStream
  \/ FetchOk
  \/ \E outcome \in FetchOutcomes : FetchFails(outcome)
  \/ \E frame \in Frames : OnData(frame)
  \/ OnEnd
  \/ OnError

Spec == Init /\ [][Next]_vars

TypeOK ==
  /\ pc \in {"start", "rejected", "awaitFetch", "failed", "streaming",
             "ended", "errored"}
  /\ headersSent \in BOOLEAN /\ resEnded \in BOOLEAN
  /\ firstChunk \in BOOLEAN /\ completionSent \in BOOLEAN
  /\ nextError \in {0, 401, 500}
  /\ fetchCalls \in 0..1
  /\ totalChunks = Len(received)

(***************************************************************************)
(* Vocabulary of the properties                                            *)
(***************************************************************************)
Last(seq) == seq[Len(seq)]

\* number of events of the given name written so far
Count(type) == Cardinality({i \in DOMAIN out : out[i].type = type})

ClosingTypes == <<"response.output_text.done", "response.output_item.done",
                  "response.completed", "response.done">>

IsClosingType(type) == \E k \in DOMAIN ClosingTypes : ClosingTypes[k] = type

NoSentinel(frames) == \A i \in DOMAIN frames : frames[i].kind # "done"

\* the text fragments of the frames, concatenated in arrival order
RECURSIVE FragmentsConcat(_)
FragmentsConcat(frames) ==
  IF frames = <<>> THEN ""
  ELSE (IF Head(frames).kind = "json" THEN Head(frames).text ELSE "")
       \o FragmentsConcat(Tail(frames))

\* the upstream frames so far are deltas followed by the [DONE] sentinel
TerminatedByDone ==
  /\ received # <<>>
  /\ Last(received).kind = "done"
  /\ NoSentinel(SubSeq(received, 1, Len(received) - 1))

\* the upstream body ended and never sent [DONE]
EndedWithoutDone == pc = "ended" /\ NoSentinel(received)

HelFrame == [kind |-> "json", text |-> "Hel", tool_calls |-> <<>>]
LoFrame == [kind |-> "json", text |-> "lo", tool_calls |-> <<>>]
WorldFrame == [kind |-> "json", text |-> " world", tool_calls |-> <<>>]

(***************************************************************************)
(* C1: when the upstream frames are deltas terminated by [DONE], the       *)
(* stream holds exactly one response.completed and exactly one             *)
(* response.done, each carrying the concatenation, in arrival order, of    *)
(* the text fragments received; this stays so when the body then ends.     *)
(***************************************************************************)
C1_CompletedOnceOnDone ==
  TerminatedByDone =>
    /\ Count("response.completed") = 1
    /\ Count("response.done") = 1
    /\ \A i \in DOMAIN out :
         out[i].type \in {"response.completed", "response.done"} =>
           out[i].text = FragmentsConcat(received)

C1_Witness ==
  /\ received = <<HelFrame, LoFrame, DoneFrame>>
  /\ pc = "ended"
  /\ Last(out).type = "response.done"
  /\ Last(out).text = "Hello"

(***************************************************************************)
(* C2 (as claimed): whenever the upstream body ends without [DONE],        *)
(* whatever frames preceded, each event of the closing quartet has been    *)
(* emitted exactly once when the caller's stream is closed.                *)
(***************************************************************************)
C2_QuartetOnEveryEnd ==
  EndedWithoutDone =>
    \A k \in DOMAIN ClosingTypes : Count(ClosingTypes[k]) = 1

(***************************************************************************)
(* C3: text frames followed by the end of the body with no sentinel yield  *)
(* a response.done event whose text is the fragments concatenated in       *)
(* arrival order.                                                          *)
(***************************************************************************)
C3_DoneTextOnEnd ==
  (EndedWithoutDone /\ FragmentsConcat(received) # "") =>
    \E i \in DOMAIN out :
      /\ out[i].type = "response.done"
      /\ out[i].text = FragmentsConcat(received)

C3_Witness ==
  /\ received = <<HelFrame, LoFrame, WorldFrame>>
  /\ pc = "ended"
  /\ Last(out).type = "response.done"
  /\ Last(out).text = "Hello world"

(***************************************************************************)
(* C4: under any order and repetition of [DONE] frames and the end of the  *)
(* body, each closing event has been emitted at most once, and             *)
(* completionSent never returns from true to false.                        *)
(***************************************************************************)
C4_ClosingAtMostOnce ==
  \A k \in DOMAIN ClosingTypes : Count(ClosingTypes[k]) <= 1

C4_ClosingOnceAndLatched ==
  /\ []C4_ClosingAtMostOnce
  /\ [][completionSent => completionSent']_vars

\* both triggers fired, the sentinel twice
C4_Witness ==
  /\ pc = "ended"
  /\ Cardinality({i \in DOMAIN received : received[i].kind = "done"}) >= 2
  /\ accumulatedText # ""
  /\ completionSent
  /\ Count("response.done") = 1

C6_DoneIsLast ==
  \A i \in DOMAIN out : out[i].type = "response.done" => i = Len(out)

(***************************************************************************)
(* C7: whenever closing events are written, the step writes exactly the    *)
(* four of them, contiguously, in the order response.output_text.done,     *)
(* response.output_item.done, response.completed, response.done, and all   *)
(* four carry accumulatedText as it is at that moment.                     *)
(***************************************************************************)
C7_WritesClosing ==
  /\ Len(out') > Len(out)
  /\ \E i \in (Len(out) + 1)..Len(out') : IsClosingType(out'[i].type)

C7_ClosingStep ==
  C7_WritesClosing =>
    /\ Len(out') = Len(out) + 4
    /\ SubSeq(out', 1, Len(out)) = out
    /\ \A k \in 1..4 :
         /\ out'[Len(out) + k].type = ClosingTypes[k]
         /\ out'[Len(out) + k].text = accumulatedText
    /\ accumulatedText' = accumulatedText

C7_ClosingContiguousOrdered == [][C7_ClosingStep]_vars

\* the quartet written on the end trigger, after tool-call and text events
C7_Witness ==
  /\ EndedWithoutDone
  /\ Len(out) >= 7
  /\ \E i \in DOMAIN out : out[i].item = "function_call"
  /\ \A k \in 1..4 :
       /\ out[Len(out) - 4 + k].type = ClosingTypes[k]
       /\ out[Len(out) - 4 + k].text = accumulatedText

RECURSIVE DeltaTexts(_)
DeltaTexts(events) ==
  IF events = <<>> THEN <<>>
  ELSE (IF Head(events).type = "response.output_text.delta"
          THEN <<Head(events).text>> ELSE <<>>)
       \o DeltaTexts(Tail(events))

RECURSIVE NonEmptyFragments(_)
NonEmptyFragments(frames) ==
  IF frames = <<>> THEN <<>>
  ELSE (IF Head(frames).kind = "json" /\ Head(frames).text # ""
          THEN <<Head(frames).text>> ELSE <<>>)
       \o NonEmptyFragments(Tail(frames))

RECURSIVE Concat(_)
Concat(texts) ==
  IF texts = <<>> THEN "" ELSE Head(texts) \o Concat(Tail(texts))

C9_AccumulatedIsDeltas ==
  /\ accumulatedText = Concat(DeltaTexts(out))
  /\ DeltaTexts(out) = NonEmptyFragments(received)
  /\ \A i \in DOMAIN out :
       out[i].type = "response.content_part.added" =>
         /\ i > 1 /\ i < Len(out)
         /\ out[i - 1].type = "response.output_item.added"
         /\ out[i - 1].item = "message"
         /\ out[i + 1].type = "response.output_text.delta"
         /\ out[i + 1].text = Head(NonEmptyFragments(received))

C9_Witness ==
  /\ DeltaTexts(out) = <<"Hel", "lo">>
  /\ accumulatedText = "Hello"
  /\ Count("response.content_part.added") = 1

(***************************************************************************)
(* C10 (as claimed): for every tool-call id at most one function-call      *)
(* response.output_item.added event is emitted, even if upstream repeats   *)
(* a delta carrying the same id and function name.                         *)
(***************************************************************************)
C10_OneItemPerToolCallId ==
  \A i, j \in DOMAIN out :
    ( /\ out[i].type = "response.output_item.added"
      /\ out[i].item = "function_call"
      /\ out[j].type = "response.output_item.added"
      /\ out[j].item = "function_call"
      /\ out[i].id = out[j].id ) => i = j

(***************************************************************************)
(* The chunk variant: handleStreamingCompletion (handler "chat") and       *)
(* handleStreamingLegacyCompletion (handler "legacy").  The two handlers   *)
(* have the same shape; they differ in the field the text is read from     *)
(* (choices[0].delta.content / choices[0].text) and in the chat handler    *)
(* mirroring delta.tool_calls.                                             *)
(***************************************************************************)
ChunkHandlers == {"chat", "legacy"}

Handlers == {"responses"} \cup ChunkHandlers

\* the upstream frames of a handler; the completions endpoint of the legacy
\* handler sends choices[0].text and no tool calls
FramesOf(h) ==
  IF h = "legacy" THEN {frame \in Frames : frame.tool_calls = <<>>} ELSE Frames

\* one res.write(`data: ...`) of the chunk variant
ChunkEv(type, object, text, toolCalls) ==
  [type |-> type, item |-> object, id |-> "", text |-> text, status |-> "",
   tool_calls |-> toolCalls]

\* res.write('data: [DONE]\n\n')
DoneMarker == ChunkEv("[DONE]", "", "", <<>>)

\* res.write(`data: ${JSON.stringify({ error: String(error) })}\n\n`)
ChunkErrorFrame == ChunkEv("error", "", "", <<>>)

\* openAiFormatted / legacyFormatted
ChunkFrame(h, frame) ==
  IF h = "chat"
    THEN ChunkEv("chunk", "chat.completion.chunk", frame.text, frame.tool_calls)
    ELSE ChunkEv("chunk", "text_completion", frame.text, <<>>)

\* no usable token: next(error) with status 401, before any header
ChunkStartNoToken ==
  /\ handler \in ChunkHandlers
  /\ pc = "start"
  /\ pc' = "rejected"
  /\ nextError' = 401
  /\ UNCHANGED <<out, headersSent, resEnded, fetchCalls, writesBeforeFetch,
                 streamState, otherVars>>

\* headers flushed, upstream call issued
ChunkStart ==
  /\ handler \in ChunkHandlers
  /\ pc = "start"
  /\ headersSent' = TRUE
  /\ writesBeforeFetch' = Len(out)
  /\ fetchCalls' = fetchCalls + 1
  /\ pc' = "awaitFetch"
  /\ UNCHANGED <<out, resEnded, nextError, streamState, otherVars>>

\* mutant: the catch block reports through next(error) whatever was sent
ChunkCatchError_AlwaysNext ==
  /\ nextError' = 500
  /\ pc' = "rejected"
  /\ UNCHANGED <<out, resEnded>>

\* the catch block of the two handlers
ChunkCatchError ==
  IF ~headersSent
    THEN /\ nextError' = 500
         /\ pc' = "rejected"
         /\ UNCHANGED <<out, resEnded>>
    ELSE /\ out' = Append(out, ChunkErrorFrame)
         /\ resEnded' = TRUE
         /\ pc' = "failed"
         /\ UNCHANGED nextError

ChunkFetchOk ==
  /\ handler \in ChunkHandlers
  /\ pc = "awaitFetch"
  /\ pc' = "streaming"
  /\ UNCHANGED <<out, headersSent, resEnded, nextError, fetchCalls,
                 writesBeforeFetch, streamState, otherVars>>

ChunkFetchFails(outcome) ==
  /\ handler \in ChunkHandlers
  /\ pc = "awaitFetch"
  /\ outcome # "ok"
  /\ ChunkCatchError
  /\ UNCHANGED <<headersSent, fetchCalls, writesBeforeFetch, streamState,
                 otherVars>>

\* mutant: a chunk without text and without tool calls is not forwarded
ChunkOnEvent_SkipsEmpty(h, frame) ==
  CASE frame.kind = "done" -> <<DoneMarker>>
    [] frame.kind = "json" ->
         IF frame.text = "" /\ frame.tool_calls = <<>>
           THEN <<>> ELSE <<ChunkFrame(h, frame)>>
    [] frame.kind = "bad" -> <<ChunkErrorFrame>>

\* parser onEvent of the chunk variant: the frames it writes
ChunkOnEvent(h, frame) ==
  CASE frame.kind = "done" -> <<DoneMarker>>
    [] frame.kind = "json" -> <<ChunkFrame(h, frame)>>
    [] frame.kind = "bad" -> <<ChunkErrorFrame>>

ChunkOnData(frame) ==
  /\ handler \in ChunkHandlers
  /\ frame \in FramesOf(handler)
  /\ pc = "streaming"
  /\ Len(received) < MaxFrames
  /\ received' = Append(received, frame)
  /\ out' = out \o ChunkOnEvent(handler, frame)
  /\ tracked' = IF frame.kind = "json" /\ frame.text # ""
                  THEN Append(tracked, EstimatedTokens(frame.text))
                  ELSE tracked
  /\ UNCHANGED <<pc, headersSent, resEnded, nextError, fetchCalls,
                 writesBeforeFetch, accumulatedText, firstChunk,
                 completionSent, toolCallsReceived, totalChunks, otherVars>>

\* reader.on('end'): res.end()
ChunkOnEnd ==
  /\ handler \in ChunkHandlers
  /\ pc = "streaming"
  /\ resEnded' = TRUE
  /\ pc' = "ended"
  /\ UNCHANGED <<out, headersSent, nextError, fetchCalls, writesBeforeFetch,
                 streamState, otherVars>>

\* reader.on('error')
ChunkOnError ==
  /\ handler \in ChunkHandlers
  /\ pc = "streaming"
  /\ out' = Append(out, ChunkErrorFrame)
  /\ resEnded' = TRUE
  /\ pc' = "errored"
  /\ UNCHANGED <<headersSent, nextError, fetchCalls, writesBeforeFetch,
                 streamState, otherVars>>

ChunkInit ==
  /\ StreamIdle
  /\ handler \in ChunkHandlers

ChunkNext ==
  \/ ChunkStartNoToken
  \/ ChunkStart
  \/ ChunkFetchOk
  \/ \E outcome \in FetchOutcomes : ChunkFetchFails(outcome)
  \/ \E frame \in Frames : ChunkOnData(frame)
  \/ ChunkOnEnd
  \/ ChunkOnError

\* a chat or legacy stream
ChunkSpec == ChunkInit /\ [][ChunkNext]_vars

(***************************************************************************)
(* Any of the three streaming handlers                                     *)
(***************************************************************************)
StreamInit ==
  /\ StreamIdle
  /\ handler \in Handlers

StreamNext ==
  \/ Next
  \/ ChunkNext

StreamSpec == StreamInit /\ [][StreamNext]_vars

(***************************************************************************)
(* C11: a frame that fails to parse as JSON writes exactly one inline      *)
(* error frame, changes nothing else of the stream and does not close it;  *)
(* the frames around it are processed as if it had not occurred: while the *)
(* stream is open there is one error frame per malformed frame, and the    *)
(* other frames written are, in order, those of the well-formed frames.    *)
(***************************************************************************)
IsNotError(event) == event.type # "error"
IsNotBad(frame) == frame.kind # "bad"
IsBad(frame) == frame.kind = "bad"

C11_BadFrameStep ==
  (received' = Append(received, BadFrame)) =>
    /\ Len(out') = Len(out) + 1
    /\ SubSeq(out', 1, Len(out)) = out
    /\ Last(out').type = "error"
    /\ UNCHANGED <<pc, resEnded, nextError, headersSent, fetchCalls,
                   accumulatedText, firstChunk, completionSent,
                   toolCallsReceived, tracked>>

C11_OneErrorPerBadFrame ==
  pc = "streaming" =>
    /\ Count("error") = Len(SelectSeq(received, IsBad))
    /\ handler = "responses" =>
         DeltaTexts(out) = NonEmptyFragments(received)
    /\ handler \in ChunkHandlers =>
         LET written == SelectSeq(out, IsNotError)
             wellFormed == SelectSeq(received, IsNotBad)
         IN  /\ Len(written) = Len(wellFormed)
             /\ \A i \in DOMAIN written :
                  /\ written[i].text = wellFormed[i].text
                  /\ (written[i].type = "[DONE]") = (wellFormed[i].kind = "done")

C11_MalformedFrameIsLocal ==
  /\ []C11_OneErrorPerBadFrame
  /\ [][C11_BadFrameStep]_vars

C11_Witness ==
  /\ pc = "streaming"
  /\ received = <<HelFrame, BadFrame, LoFrame>>
  /\ Count("error") = 1
  /\ out[Len(out) - 1].type = "error"
  /\ Last(out).text = "lo"

(***************************************************************************)
(* C12 (as claimed): in the chunk variant the terminal marker              *)
(* data: [DONE] is forwarded at most once per stream and nothing is        *)
(* forwarded after it, whatever upstream sends after the sentinel.         *)
(***************************************************************************)
C12_MarkerOnceAndLast ==
  /\ Count("[DONE]") <= 1
  /\ \A i \in DOMAIN out : out[i].type = "[DONE]" => i = Len(out)

(***************************************************************************)
(* C13 (as claimed): a chunk-variant stream closed after a normal upstream *)
(* end has data: [DONE] as its last frame, also when upstream sent no      *)
(* sentinel.                                                               *)
(***************************************************************************)
C13_MarkerLastOnEnd ==
  (handler \in ChunkHandlers /\ pc = "ended") =>
    (out # <<>> /\ Last(out).type = "[DONE]")

(***************************************************************************)
(* C14 (as claimed): when the initial upstream call of a streaming request *)
(* fails (non-success status, no body), the failure goes to next(error)    *)
(* and no in-band error frame is written.                                  *)
(***************************************************************************)
C14_InitialFailureViaNext ==
  (fetchCalls > 0 /\ pc \in {"failed", "rejected"}) =>
    (nextError # 0 /\ Count("error") = 0 /\ ~resEnded)

(***************************************************************************)
(* C15: in every streaming handler a failure after the headers were        *)
(* flushed (failed upstream call, upstream body error) writes exactly one  *)
(* inline error frame and closes the caller's stream, and next(error) is   *)
(* not invoked; a failure before the headers invokes next(error) once and  *)
(* writes nothing.                                                         *)
(***************************************************************************)
C15_FailureOutcome ==
  /\ pc \in {"failed", "errored"} =>
       /\ headersSent
       /\ out # <<>>
       /\ Last(out).type = "error"
       /\ resEnded
       /\ nextError = 0
  /\ pc = "rejected" =>
       /\ ~headersSent
       /\ out = <<>>
       /\ ~resEnded
       /\ nextError # 0
  /\ nextError # 0 => pc = "rejected"

C15_FailureStep ==
  /\ (pc' \in {"failed", "errored"} /\ pc' # pc) =>
       /\ Len(out') = Len(out) + 1
       /\ SubSeq(out', 1, Len(out)) = out
  /\ nextError' # nextError => (nextError = 0 /\ out' = out)

C15_InlineOrNext ==
  /\ []C15_FailureOutcome
  /\ [][C15_FailureStep]_vars

\* a chat stream whose upstream body errors after two frames were forwarded
C15_Witness ==
  /\ handler = "chat"
  /\ pc = "errored"
  /\ Len(received) = 2
  /\ Len(out) = 3
  /\ Count("error") = 1
  /\ resEnded

(***************************************************************************)
(* fixToolMessagePairing (src/services/copilot-service.ts)                 *)
(***************************************************************************)
\* length of the message lists given to fixToolMessagePairing
MaxMessages == 3

\* msg.content.substring(0, 200)
SummaryLimit == 200

\* content: null
Null == "<null>"

RECURSIVE Repeat(_, _)
Repeat(text, n) == IF n = 0 THEN "" ELSE text \o Repeat(text, n - 1)

\* a tool output of 210 characters
LongContent == Repeat("0123456789", 21)

\* an OpenAIMessage; "" is an absent tool_call_id, <<>> absent tool_calls
Message(role, content, toolCallId, toolCalls) ==
  [role |-> role, content |-> content, tool_call_id |-> toolCallId,
   tool_calls |-> toolCalls]

UserMessages == {Message("user", "hi", "", <<>>)}

AssistantMessages ==
  {Message("assistant", Null, "", toolCalls) :
     toolCalls \in {<<>>, <<[id |-> "call_a"]>>,
                    <<[id |-> ""], [id |-> "call_b"]>>}}

ToolMessages ==
  {Message("tool", content, id, <<>>) :
     content \in {"sunny", LongContent, Null}, id \in {"", "call_a", "call_b"}}

Messages == UserMessages \cup AssistantMessages \cup ToolMessages

RECURSIVE ListsUpTo(_, _)
ListsUpTo(elements, n) ==
  IF n = 0 THEN {<<>>}
  ELSE LET shorter == ListsUpTo(elements, n - 1)
       IN  shorter \cup {Append(list, e) : list \in shorter, e \in elements}

MessageLists == ListsUpTo(Messages, MaxMessages)

\* the template literal of the replacement message
OrphanContent(content) ==
  "[Previous tool result: "
  \o (IF content # Null
        THEN SubSeq(content, 1,
                    IF Len(content) < SummaryLimit THEN Len(content)
                                                   ELSE SummaryLimit)
        ELSE "null")
  \o (IF content # Null /\ Len(content) > SummaryLimit THEN "..." ELSE "")
  \o "]"

\* mutant: the replacement keeps the role and id of the tool message
OrphanReplacement_KeepsTool(msg) ==
  Message("tool", OrphanContent(msg.content), msg.tool_call_id, <<>>)

\* fixed.push({ role: 'user', content: `[Previous tool result: ...]` })
OrphanReplacement(msg) ==
  Message("user", OrphanContent(msg.content), "", <<>>)

\* toolUseIds after the assistant branch of the loop body
ToolUseIdsAfter(msg, toolUseIds) ==
  IF msg.role = "assistant"
    THEN toolUseIds \cup {msg.tool_calls[k].id : k \in
                            {k \in DOMAIN msg.tool_calls :
                               msg.tool_calls[k].id # ""}}
    ELSE toolUseIds

\* mutant: an orphaned tool result is dropped, not replaced
RECURSIVE FixFrom_DropsOrphans(_, _)
FixFrom_DropsOrphans(messages, toolUseIds) ==
  IF messages = <<>> THEN <<>>
  ELSE LET msg == Head(messages)
           ids == ToolUseIdsAfter(msg, toolUseIds)
       IN  (IF /\ msg.role = "tool"
               /\ msg.tool_call_id # ""
               /\ msg.tool_call_id \notin ids
              THEN <<>>
              ELSE <<msg>>)
           \o FixFrom_DropsOrphans(Tail(messages), ids)

\* the loop of fixToolMessagePairing from message i on, with the ids seen
RECURSIVE FixFrom(_, _)
FixFrom(messages, toolUseIds) ==
  IF messages = <<>> THEN <<>>
  ELSE LET msg == Head(messages)
           ids == ToolUseIdsAfter(msg, toolUseIds)
       IN  (IF /\ msg.role = "tool"
               /\ msg.tool_call_id # ""
               /\ msg.tool_call_id \notin ids
              THEN <<OrphanReplacement(msg)>>
              ELSE <<msg>>)
           \o FixFrom(Tail(messages), ids)

fixToolMessagePairing(messages) == FixFrom(messages, {})

ioVars == <<out, headersSent, resEnded, nextError, fetchCalls,
            writesBeforeFetch, requestVars>>

\* a message list is about to be repaired
RepairInit ==
  /\ handler = "fixToolMessagePairing"
  /\ pc = "call"
  /\ NoStream
  /\ callArgs \in MessageLists
  /\ callResult = <<>>

\* fixToolMessagePairing(messages) returns
RepairCall ==
  /\ handler = "fixToolMessagePairing"
  /\ pc = "call"
  /\ callResult' = fixToolMessagePairing(callArgs)
  /\ pc' = "returned"
  /\ UNCHANGED <<handler, callArgs, ioVars, streamState>>

\* the returned list is repaired again (POST /responses repairs the list
\* and handleStreamingResponses repairs the result once more)
RepairAgain ==
  /\ handler = "fixToolMessagePairing"
  /\ pc = "returned"
  /\ callArgs' = callResult
  /\ callResult' = fixToolMessagePairing(callResult)
  /\ pc' = "repeated"
  /\ UNCHANGED <<handler, ioVars, streamState>>

RepairNext ==
  \/ RepairCall
  \/ RepairAgain

RepairSpec == RepairInit /\ [][RepairNext]_vars

\* the call returned: callArgs is its input, callResult its output
Repaired == pc \in {"returned", "repeated"}

\* the tool-call ids emitted by the assistant messages before position i
EmittedBefore(messages, i) ==
  {messages[j].tool_calls[k].id :
     <<j, k>> \in {<<j, k>> \in (1..(i - 1)) \X (1..2) :
                     /\ messages[j].role = "assistant"
                     /\ k \in DOMAIN messages[j].tool_calls}}

(***************************************************************************)
(* C16: fixToolMessagePairing is idempotent: repairing its own output      *)
(* returns that output.                                                    *)
(***************************************************************************)
C16_RepairIdempotent ==
  pc = "repeated" => callResult = callArgs

\* the first pass replaced an orphan and kept a paired tool result
C16_Witness ==
  /\ pc = "repeated"
  /\ callResult = callArgs
  /\ \E i \in DOMAIN callArgs :
       /\ callArgs[i].role = "user"
       /\ callArgs[i].content = "[Previous tool result: sunny]"
  /\ \E i \in DOMAIN callArgs :
       /\ callArgs[i].role = "tool"
       /\ callArgs[i].tool_call_id = "call_a"

(***************************************************************************)
(* C17 (as claimed): a tool-role message is passed through unchanged if    *)
(* its tool_call_id was emitted by an earlier assistant message; otherwise *)
(* it is replaced at its position by a user-role message with the          *)
(* bracketed summary of at most 200 characters, and the repaired list has  *)
(* no tool-role message with that id.                                      *)
(***************************************************************************)
C17_KeptOrReplaced ==
  pc = "returned" =>
    \A i \in DOMAIN callArgs :
      callArgs[i].role = "tool" =>
        /\ i \in DOMAIN callResult
        /\ IF callArgs[i].tool_call_id \in EmittedBefore(callArgs, i)
             THEN callResult[i] = callArgs[i]
             ELSE /\ callResult[i].role = "user"
                  /\ callResult[i].content = OrphanContent(callArgs[i].content)
                  /\ \A j \in DOMAIN callResult :
                       callResult[j].role = "tool" =>
                         callResult[j].tool_call_id # callArgs[i].tool_call_id

(***************************************************************************)
(* C18 (as claimed): in the output of fixToolMessagePairing every          *)
(* tool-role message has a tool_call_id emitted by an earlier assistant    *)
(* message of that list, for every input.                                  *)
(***************************************************************************)
C18_ToolResultsPaired ==
  Repaired =>
    \A i \in DOMAIN callResult :
      callResult[i].role = "tool" =>
        callResult[i].tool_call_id \in EmittedBefore(callResult, i)

(***************************************************************************)
(* C19: fixToolMessagePairing returns a list of the length of its input    *)
(* in which every message that is not a tool-role message is the input     *)
(* message at the same index.                                              *)
(***************************************************************************)
C19_LengthAndOthersKept ==
  Repaired =>
    /\ Len(callResult) = Len(callArgs)
    /\ \A i \in DOMAIN callArgs :
         callArgs[i].role # "tool" => callResult[i] = callArgs[i]

\* an orphan between two other messages was replaced in place
C19_Witness ==
  /\ pc = "returned"
  /\ Len(callArgs) = 3
  /\ callArgs[1].role = "user"
  /\ callArgs[2].role = "tool"
  /\ callArgs[2].tool_call_id = "call_b"
  /\ callArgs[3].role = "assistant"
  /\ callResult[2].role = "user"
  /\ callResult[3] = callArgs[3]

(***************************************************************************)
(* mapToCopilotModel (src/services/copilot-service.ts)                     *)
(***************************************************************************)
\* const MODEL_MAPPING: Record<string, string> = { ... }
MODEL_MAPPING ==
  ("claude-haiku-4.5" :> "claude-haiku-4.5") @@
  ("claude-4.5-haiku" :> "claude-haiku-4.5") @@
  ("claude-opus-4.5" :> "claude-opus-4.5") @@
  ("claude-4.5-opus" :> "claude-opus-4.5") @@
  ("claude-opus-4.6" :> "claude-opus-4.6") @@
  ("claude-4.6-opus" :> "claude-opus-4.6") @@
  ("claude-opus-4.6-fast" :> "claude-opus-4.6-fast") @@
  ("claude-sonnet-4" :> "claude-sonnet-4") @@
  ("claude-4-sonnet" :> "claude-sonnet-4") @@
  ("claude-sonnet-4.5" :> "claude-sonnet-4.5") @@
  ("claude-4.5-sonnet" :> "claude-sonnet-4.5") @@
  ("claude-sonnet-4.6" :> "claude-sonnet-4.6") @@
  ("claude-4.6-sonnet" :> "claude-sonnet-4.6") @@
  ("gpt-4o" :> "gpt-4o") @@
  ("gpt-4.1" :> "gpt-4.1") @@
  ("gpt-5-mini" :> "gpt-5-mini") @@
  ("gpt-5.1" :> "gpt-5.1") @@
  ("gpt-5.1-codex" :> "gpt-5.1-codex") @@
  ("gpt-5.1-codex-mini" :> "gpt-5.1-codex-mini") @@
  ("gpt-5.1-codex-max" :> "gpt-5.1-codex-max") @@
  ("gpt-5.2" :> "gpt-5.2") @@
  ("gpt-5.2-codex" :> "gpt-5.2-codex") @@
  ("gpt-5.3-codex" :> "gpt-5.3-codex") @@
  ("gemini-2.5-pro" :> "gemini-2.5-pro") @@
  ("gemini-3-flash" :> "gemini-3-flash") @@
  ("gemini-3-pro" :> "gemini-3-pro") @@
  ("gemini-3.1-pro" :> "gemini-3.1-pro") @@
  ("grok-code-fast-1" :> "grok-code-fast-1") @@
  ("raptor-mini" :> "raptor-mini") @@
  ("goldeneye" :> "goldeneye") @@
  ("claude-3.5-sonnet" :> "claude-sonnet-4.6") @@
  ("claude-3-opus" :> "claude-opus-4.6") @@
  ("claude-3-sonnet" :> "claude-sonnet-4.6") @@
  ("claude-opus-4" :> "claude-opus-4.6") @@
  ("claude-4-opus" :> "claude-opus-4.6") @@
  ("claude-opus-4.1" :> "claude-opus-4.6") @@
  ("gpt-4" :> "gpt-4.1") @@
  ("gpt-4-turbo" :> "gpt-4.1") @@
  ("gpt-4o-mini" :> "gpt-5-mini") @@
  ("gpt-3.5-turbo" :> "gpt-4.1") @@
  ("gpt-5" :> "gpt-5.2") @@
  ("gpt-5-codex" :> "gpt-5.2-codex") @@
  ("o1" :> "gpt-5-mini") @@
  ("o1-preview" :> "gpt-5-mini") @@
  ("o1-mini" :> "gpt-5-mini") @@
  ("o3" :> "gpt-5.2") @@
  ("o3-mini" :> "gpt-5-mini") @@
  ("o4-mini" :> "gpt-5-mini") @@
  ("gemini-2.0-flash" :> "gemini-2.5-pro") @@
  ("gemini-3-pro-preview" :> "gemini-3-pro") @@
  ("gemini-3-flash-preview" :> "gemini-3-flash") @@
  ("default" :> "gpt-4o")

\* MODEL_MAPPING is an ordinary object: indexing it with a name it does not
\* own reads Object.prototype.  These are the inherited properties whose
\* names are lower-case; their values are not strings.
ObjectFunction == "<function Object>"
ObjectPrototype == "<Object.prototype>"
NonStrings == {ObjectFunction, ObjectPrototype}

InheritedProperties ==
  ("constructor" :> ObjectFunction) @@ ("__proto__" :> ObjectPrototype)

\* the value of a call that throws TypeError
TypeError == "<TypeError>"

UpperLetters == "ABCDEFGHIJKLMNOPQRSTUVWXYZ"
LowerLetters == "abcdefghijklmnopqrstuvwxyz"

\* the character, a one-character string, in lower / upper case
LowerChar(c) ==
  IF \E i \in 1..26 : SubSeq(UpperLetters, i, i) = c
    THEN LET i == CHOOSE i \in 1..26 : SubSeq(UpperLetters, i, i) = c
         IN  SubSeq(LowerLetters, i, i)
    ELSE c

UpperChar(c) ==
  IF \E i \in 1..26 : SubSeq(LowerLetters, i, i) = c
    THEN LET i == CHOOSE i \in 1..26 : SubSeq(LowerLetters, i, i) = c
         IN  SubSeq(UpperLetters, i, i)
    ELSE c

\* String.prototype.toLowerCase / toUpperCase
RECURSIVE ToLowerCase(_)
ToLowerCase(text) ==
  IF text = "" THEN ""
  ELSE LowerChar(SubSeq(text, 1, 1)) \o ToLowerCase(SubSeq(text, 2, Len(text)))

RECURSIVE ToUpperCase(_)
ToUpperCase(text) ==
  IF text = "" THEN ""
  ELSE UpperChar(SubSeq(text, 1, 1)) \o ToUpperCase(SubSeq(text, 2, Len(text)))

\* MODEL_MAPPING[key]; "" is undefined
Lookup(key) ==
  IF key \in DOMAIN MODEL_MAPPING THEN MODEL_MAPPING[key]
  ELSE IF key \in DOMAIN InheritedProperties THEN InheritedProperties[key]
  ELSE ""

mapToCopilotModel(requestedModel) ==
  IF requestedModel \in NonStrings \cup {TypeError}
    THEN TypeError   \* requestedModel.toLowerCase is not a function
    ELSE LET mapped == Lookup(ToLowerCase(requestedModel))
         IN  IF mapped # "" THEN mapped ELSE requestedModel

\* requested identifiers: every table entry in lower and in upper case,
\* mixed case, unknown names and names of inherited properties
ModelIdentifiers ==
  DOMAIN MODEL_MAPPING
  \cup {ToUpperCase(key) : key \in DOMAIN MODEL_MAPPING}
  \cup {"Gpt-4o", "Claude-3.5-Sonnet", "my-custom-model", "My-Custom-Model",
        "llama-3", "constructor", "Constructor", "__proto__"}

ResolveInit ==
  /\ handler = "mapToCopilotModel"
  /\ pc = "call"
  /\ NoStream
  /\ callArgs \in ModelIdentifiers
  /\ callResult = ""

\* mapToCopilotModel(requestedModel) returns (or throws)
ResolveCall ==
  /\ handler = "mapToCopilotModel"
  /\ pc = "call"
  /\ callResult' = mapToCopilotModel(callArgs)
  /\ pc' = "returned"
  /\ UNCHANGED <<handler, callArgs, ioVars, streamState>>

\* the value returned is resolved again
ResolveAgain ==
  /\ handler = "mapToCopilotModel"
  /\ pc = "returned"
  /\ callArgs' = callResult
  /\ callResult' = mapToCopilotModel(callResult)
  /\ pc' = "repeated"
  /\ UNCHANGED <<handler, ioVars, streamState>>

ResolveNext ==
  \/ ResolveCall
  \/ ResolveAgain

ResolveSpec == ResolveInit /\ [][ResolveNext]_vars

(***************************************************************************)
(* C20 (as claimed): mapToCopilotModel is case-insensitive and idempotent: *)
(* identifiers that differ only in letter case and name a table entry      *)
(* resolve to the same value, and for every identifier x,                  *)
(* resolve(resolve(x)) = resolve(x).                                       *)
(***************************************************************************)
C20_CaseInsensitiveIdempotent ==
  /\ pc = "returned" =>
       \A other \in ModelIdentifiers :
         ( /\ ToLowerCase(other) = ToLowerCase(callArgs)
           /\ ToLowerCase(callArgs) \in DOMAIN MODEL_MAPPING ) =>
           mapToCopilotModel(other) = callResult
  /\ pc = "repeated" => callResult = callArgs

(***************************************************************************)
(* C21 (as claimed): an identifier whose lower-cased form is not an entry  *)
(* of the alias table is returned unchanged, and the call never fails.     *)
(***************************************************************************)
C21_UnknownPassesThrough ==
  (pc = "returned" /\ ToLowerCase(callArgs) \notin DOMAIN MODEL_MAPPING) =>
    callResult = callArgs

\* README.md, "Model Mapping": | You Request | Copilot Receives |
ReadmeModelMapping ==
  ("claude-4.5-opus" :> "claude-opus-4.5") @@
  ("claude-4.5-sonnet" :> "claude-sonnet-4.5") @@
  ("claude-3.5-sonnet" :> "claude-sonnet-4") @@
  ("claude-3-opus" :> "claude-opus-4.5") @@
  ("gpt-4-turbo" :> "gpt-4-0125-preview") @@
  ("gemini-3-pro" :> "gemini-3-pro-preview") @@
  ("gemini-3-flash" :> "gemini-3-flash-preview") @@
  ("o1" :> "o1-preview")

(***************************************************************************)
(* C22 (as claimed): every "You Request" name of the README's Model        *)
(* Mapping table resolves to the listed "Copilot Receives" name.           *)
(***************************************************************************)
C22_ReadmeMappingHonoured ==
  (pc = "returned" /\ callArgs \in DOMAIN ReadmeModelMapping) =>
    callResult = ReadmeModelMapping[callArgs]

(***************************************************************************)
(* convertToolsForCopilot (src/services/copilot-service.ts)                *)
(***************************************************************************)
\* number of entries of a request's tools array
MaxTools == 3

\* A tool entry is a JSON value.  json is "falsy" for null / 0 / "" / false,
\* "primitive" for any other non-object, "object" otherwise.  function and
\* custom are <<>> when the property is absent (or falsy) and <<object>>
\* when it is present.  A name is "" when absent, NumberName when it is a
\* truthy non-string.
NumberName == "<number 42>"
ToolObject(name, description, parameters, strict) ==
  [name |-> name, description |-> description, parameters |-> parameters,
   strict |-> strict]

ToolEntry(json, type, function, custom, name, description, parameters) ==
  [json |-> json, type |-> type, function |-> function, custom |-> custom,
   name |-> name, description |-> description, parameters |-> parameters]

NullTool == ToolEntry("falsy", "", <<>>, <<>>, "", "", "")
PrimitiveTool == ToolEntry("primitive", "", <<>>, <<>>, "", "", "")
FunctionTool ==
  ToolEntry("object", "function",
            <<ToolObject("get_weather", "Weather", "{city}", "true")>>,
            <<>>, "", "", "")
FunctionToolBare ==
  ToolEntry("object", "function", <<ToolObject("search", "", "", "")>>,
            <<>>, "", "", "")
FunctionNoName ==
  ToolEntry("object", "function", <<ToolObject("", "Nameless", "", "")>>,
            <<>>, "", "", "")
FunctionNumberName ==
  ToolEntry("object", "function", <<ToolObject(NumberName, "", "", "")>>,
            <<>>, "", "", "")
CustomTool ==
  ToolEntry("object", "custom", <<>>,
            <<ToolObject("apply_patch", "Patch", "", "")>>, "", "", "")
CustomNoName ==
  ToolEntry("object", "custom", <<>>, <<ToolObject("", "", "", "")>>,
            "", "", "")
\* the flat format of the Responses API: {type: 'function', name, ...}
FlatTool ==
  ToolEntry("object", "function", <<>>, <<>>, "read_file", "Read", "{path}")
FlatNumberName == ToolEntry("object", "", <<>>, <<>>, NumberName, "", "")
WebSearchTool ==
  ToolEntry("object", "web_search_preview", <<>>, <<>>, "", "", "")
UnknownTool == ToolEntry("object", "other", <<>>, <<>>, "", "", "")

ToolEntries ==
  { NullTool, PrimitiveTool, FunctionTool, FunctionToolBare, FunctionNoName,
    FunctionNumberName, CustomTool, CustomNoName, FlatTool, FlatNumberName,
    WebSearchTool, UnknownTool }

\* a value that is either undefined or an array
Undefined == [defined |-> FALSE, items |-> <<>>]
Array(items) == [defined |-> TRUE, items |-> items]

ToolArrays == {Array(items) : items \in ListsUpTo(ToolEntries, MaxTools)}
ToolInputs == {Undefined} \cup ToolArrays

\* typeof name === 'string' && name is truthy
IsName(name) == name # "" /\ name # NumberName

\* tool.function.parameters || { type: 'object', properties: {} }
DefaultParameters == "{type: object, properties: {}}"
OrDefault(parameters) ==
  IF parameters # "" THEN parameters ELSE DefaultParameters

\* the object pushed onto convertedTools
Converted(name, description, parameters, strict) ==
  [type |-> "function",
   function |-> ToolObject(name, description, OrDefault(parameters), strict)]

\* one iteration of `for (const tool of tools)`: the entries pushed
ConvertTool_NoFlat(tool) ==
  IF tool.json = "falsy" THEN <<>>
  ELSE IF tool.type = "function" /\ tool.function # <<>> THEN
    LET f == tool.function[1]
    IN  IF IsName(f.name)
          THEN <<Converted(f.name, f.description, f.parameters, f.strict)>>
          ELSE <<>>
  ELSE IF tool.type = "custom" /\ tool.custom # <<>> THEN
    LET c == tool.custom[1]
    IN  IF IsName(c.name)
          THEN <<Converted(c.name, c.description, c.parameters, "")>>
          ELSE <<>>
  ELSE <<>>

ConvertTool(tool) ==
  IF tool.json = "falsy" THEN <<>>
  ELSE IF tool.type = "function" /\ tool.function # <<>> THEN
    LET f == tool.function[1]
    IN  IF IsName(f.name)
          THEN <<Converted(f.name, f.description, f.parameters, f.strict)>>
          ELSE <<>>
  ELSE IF tool.type = "custom" /\ tool.custom # <<>> THEN
    LET c == tool.custom[1]
    IN  IF IsName(c.name)
          THEN <<Converted(c.name, c.description, c.parameters, "")>>
          ELSE <<>>
  ELSE IF IsName(tool.name) THEN
    <<Converted(tool.name, tool.description, tool.parameters, "")>>
  ELSE <<>>

RECURSIVE ConvertAll(_)
ConvertAll(items) ==
  IF items = <<>> THEN <<>>
  ELSE ConvertTool(Head(items)) \o ConvertAll(Tail(items))

convertToolsForCopilot_EmptyArray(tools) ==
  IF ~tools.defined \/ Len(tools.items) = 0 THEN Undefined
  ELSE Array(ConvertAll(tools.items))

convertToolsForCopilot(tools) ==
  IF ~tools.defined \/ Len(tools.items) = 0 THEN Undefined
  ELSE LET convertedTools == ConvertAll(tools.items)
       IN  IF Len(convertedTools) = 0 THEN Undefined
           ELSE Array(convertedTools)

ConvertInit ==
  /\ handler = "convertToolsForCopilot"
  /\ pc = "call"
  /\ NoStream
  /\ callArgs \in ToolInputs
  /\ callResult = Undefined

\* convertToolsForCopilot(tools) returns
ConvertCall ==
  /\ handler = "convertToolsForCopilot"
  /\ pc = "call"
  /\ callResult' = convertToolsForCopilot(callArgs)
  /\ pc' = "returned"
  /\ UNCHANGED <<handler, callArgs, ioVars, streamState>>

ConvertNext == ConvertCall

ConvertSpec == ConvertInit /\ [][ConvertNext]_vars

\* the name an entry declares, where its format puts it
DeclaredName(tool) ==
  IF tool.json # "object" THEN ""
  ELSE IF tool.type = "function" /\ tool.function # <<>>
    THEN tool.function[1].name
  ELSE IF tool.type = "custom" /\ tool.custom # <<>>
    THEN tool.custom[1].name
  ELSE tool.name

\* an entry with a non-empty string name
IsValidTool(tool) == IsName(DeclaredName(tool))

\* the declared names of the valid entries, in order
RECURSIVE ValidNames(_)
ValidNames(items) ==
  IF items = <<>> THEN <<>>
  ELSE (IF IsValidTool(Head(items)) THEN <<DeclaredName(Head(items))>>
        ELSE <<>>) \o ValidNames(Tail(items))

\* {type: 'function', function: {name, description, parameters}}
IsCanonical(tool) ==
  /\ tool.type = "function"
  /\ IsName(tool.function.name)
  /\ tool.function.parameters # ""

(***************************************************************************)
(* C23: convertToolsForCopilot returns for every sequence of tool entries; *)
(* the entries of its result are, in the original order, exactly the       *)
(* entries that have a non-empty string name, each in the canonical shape  *)
(* {type: function, function: {name, description, parameters}}; an entry   *)
(* without such a name is absent.                                          *)
(***************************************************************************)
C23_ValidToolsInOrder ==
  (handler = "convertToolsForCopilot" /\ pc = "returned") =>
    /\ callResult # Undefined => callResult.defined
    /\ [i \in DOMAIN callResult.items |-> callResult.items[i].function.name]
         = ValidNames(callArgs.items)
    /\ \A i \in DOMAIN callResult.items : IsCanonical(callResult.items[i])

\* an invalid entry between two valid ones was dropped and the order kept
C23_Witness ==
  /\ handler = "convertToolsForCopilot"
  /\ pc = "returned"
  /\ callArgs = Array(<<FlatTool, FunctionNoName, FunctionTool>>)
  /\ callResult =
       Array(<<Converted("read_file", "Read", "{path}", ""),
               Converted("get_weather", "Weather", "{city}", "true")>>)

(***************************************************************************)
(* The request paths: POST /completions, POST /chat/completions and        *)
(* POST /responses (src/routes/openai.ts), each with stream true or false, *)
(* from the arrival of the request to the answer of the upstream call      *)
(***************************************************************************)
\* a numeric property the caller omitted
Absent == -1

\* x || d
OrElse(x, d) == IF x = Absent \/ x = 0 THEN d ELSE x

\* defaults of the chat bodies; temperature and top_p count in tenths
DefaultMaxTokens == 4096
DefaultTemperature == 7
DefaultTopP == 10
DefaultN == 1
\* defaults of the /completions bodies
LegacyMaxTokens == 500
LegacyTemperature == 1

RequestHandlers ==
  {"POST /completions", "POST /chat/completions", "POST /responses"}

\* model names of requests; "" is a request without a model
RequestModels == {"", "o1", "GPT-4o", "my-custom-model"}

\* tools of requests
RequestTools ==
  { Undefined, Array(<<>>), Array(<<FunctionTool>>), Array(<<FlatTool>>),
    Array(<<FunctionNoName>>), Array(<<FunctionTool, UnknownTool>>) }

\* req.body and what getCopilotToken() returns for it.  required: the
\* endpoint's required field (prompt, a non-empty messages array, input) is
\* there; max_tokens is max_output_tokens on /responses, whose requests have
\* no n.
Requests(h) ==
  [ required : BOOLEAN, stream : BOOLEAN, token : {"", "tok"},
    model : RequestModels,
    tools : IF h = "POST /completions" THEN {Undefined} ELSE RequestTools,
    max_tokens : {Absent, 0, 100},
    temperature : {Absent, 0, 2},
    top_p : {Absent, 5},
    n : IF h = "POST /responses" THEN {Absent} ELSE {Absent, 2} ]

\* errors given to next(error); status 0: an Error without a status
AppError(status, code) == [status |-> status, code |-> code]
InvalidRequest == AppError(400, "invalid_request")
AuthenticationRequired == AppError(401, "authentication_required")
AuthenticationFailed == AppError(401, "authentication_failed")
ThrownError == AppError(0, "")

\* requireAuth: the token is valid or was refreshed, there is none, or the
\* check itself threw
AuthOutcomes == {"valid", "required", "failed"}

\* const { model = d } = request
ModelOr(model, d) == IF model = "" THEN d ELSE model

\* the body of an upstream call, as JSON.stringify writes it: a property
\* whose value is undefined is not written
UpstreamBody(url, model, request, maxTokens, temperature, n, stream, tools) ==
  [url |-> url, model |-> model,
   max_tokens |-> OrElse(request.max_tokens, maxTokens),
   temperature |-> OrElse(request.temperature, temperature),
   top_p |-> OrElse(request.top_p, DefaultTopP),
   n |-> n, stream |-> stream, tools |-> tools]

\* the body that makeCompletionRequest(request) sends
CompletionBody(request) ==
  UpstreamBody("chat", mapToCopilotModel(ModelOr(request.model, "gpt-4o")),
               request, DefaultMaxTokens, DefaultTemperature,
               OrElse(request.n, DefaultN), FALSE,
               IF request.tools.defined /\ Len(request.tools.items) > 0
                 THEN convertToolsForCopilot(request.tools)
                 ELSE Undefined)

\* tools.map(t => t.function.name), an argument of makeCompletionRequest's
\* logger.debug call, throws TypeError on an entry without a function
ToolNamesThrow(tools) ==
  /\ tools.defined
  /\ Len(tools.items) > 0
  /\ \E i \in DOMAIN tools.items :
       tools.items[i].json # "object" \/ tools.items[i].function = <<>>

\* the completionRequest that POST /responses builds when stream is false
ResponsesCompletionRequest(request) ==
  [model |-> ModelOr(request.model, "gpt-4"),
   max_tokens |-> request.max_tokens,
   temperature |-> request.temperature,
   top_p |-> request.top_p,
   n |-> Absent,
   tools |-> Undefined]

\* the body of handleStreamingLegacyCompletion and of the non-streaming
\* branch of POST /completions
LegacyBody(request) ==
  UpstreamBody("completions", "", request, LegacyMaxTokens,
               LegacyTemperature, OrElse(request.n, DefaultN),
               request.stream, Undefined)

\* the body of handleStreamingCompletion
StreamingChatBody(request) ==
  UpstreamBody("chat",
               mapToCopilotModel(ModelOr(ModelOr(request.model, "gpt-4"),
                                         "gpt-4o")),
               request, DefaultMaxTokens, DefaultTemperature,
               OrElse(request.n, DefaultN), TRUE,
               IF request.tools.defined /\ Len(request.tools.items) > 0
                 THEN request.tools
                 ELSE Undefined)

\* the body of handleStreamingResponses
StreamingResponsesBody(request) ==
  LET convertedTools == convertToolsForCopilot(request.tools)
  IN  UpstreamBody("chat",
                   mapToCopilotModel(ModelOr(ModelOr(request.model, "gpt-4"),
                                             "gpt-4o")),
                   request, DefaultMaxTokens, DefaultTemperature, DefaultN,
                   TRUE,
                   IF convertedTools.defined /\ Len(convertedTools.items) > 0
                     THEN convertedTools
                     ELSE Undefined)

RequestInit ==
  /\ handler \in RequestHandlers
  /\ pc = "arrived"
  /\ NoStream
  /\ callArgs \in Requests(handler)
  /\ callResult = <<>>

requestKept == <<handler, callArgs, callResult, callerGone, aborted, peer,
                 serviceVars,
                 accumulatedText, firstChunk, completionSent,
                 toolCallsReceived, totalChunks, received>>

\* next(error): nothing is called or written
Refuse(error) ==
  /\ errors' = Append(errors, error)
  /\ nextError' = error.status
  /\ pc' = "rejected"
  /\ UNCHANGED <<out, headersSent, resEnded, fetchCalls, writesBeforeFetch,
                 upstream>>

\* fetch(url, {body}) is issued and awaited; a streaming handler has
\* flushed the SSE headers and written `written` before it
Fetch(body, flushed, written) ==
  /\ headersSent' = flushed
  /\ out' = out \o written
  /\ writesBeforeFetch' = Len(out')
  /\ fetchCalls' = fetchCalls + 1
  /\ upstream' = Append(upstream, body)
  /\ pc' = "awaitFetch"
  /\ UNCHANGED <<resEnded, nextError, errors>>

\* the requireAuth middleware of the three routes
RequireAuth(outcome) ==
  /\ handler \in RequestHandlers
  /\ pc = "arrived"
  /\ CASE outcome = "valid" ->
            /\ pc' = "received"
            /\ UNCHANGED <<out, headersSent, resEnded, fetchCalls,
                           writesBeforeFetch, upstream, errors, nextError>>
       [] outcome = "required" -> Refuse(AuthenticationRequired)
       [] outcome = "failed" -> Refuse(AuthenticationFailed)
  /\ UNCHANGED tracked
  /\ UNCHANGED requestKept

\* POST /completions up to its first await
PostCompletions ==
  /\ handler = "POST /completions"
  /\ pc = "received"
  /\ tracked' = Append(tracked, 0)
  /\ IF ~callArgs.required THEN Refuse(InvalidRequest)
     ELSE IF callArgs.token = "" THEN Refuse(AuthenticationRequired)
     ELSE Fetch(LegacyBody(callArgs), callArgs.stream, <<>>)
  /\ UNCHANGED requestKept

\* POST /chat/completions up to its first await: handleStreamingCompletion
\* when stream is set, makeCompletionRequest otherwise
PostChatCompletions ==
  /\ handler = "POST /chat/completions"
  /\ pc = "received"
  /\ tracked' = Append(tracked, 0)
  /\ IF ~callArgs.required THEN Refuse(InvalidRequest)
     ELSE IF callArgs.token = "" THEN Refuse(AuthenticationRequired)
     ELSE IF callArgs.stream
       THEN Fetch(StreamingChatBody(callArgs), TRUE, <<>>)
     ELSE IF ToolNamesThrow(callArgs.tools) THEN Refuse(ThrownError)
     ELSE Fetch(CompletionBody(callArgs), FALSE, <<>>)
  /\ UNCHANGED requestKept

\* mutant: POST /responses validates its input only when stream is false
PostResponses_ValidatesLate ==
  /\ handler = "POST /responses"
  /\ pc = "received"
  /\ tracked' = Append(tracked, 0)
  /\ IF callArgs.token = "" THEN Refuse(AuthenticationRequired)
     ELSE IF callArgs.stream
       THEN Fetch(StreamingResponsesBody(callArgs), TRUE, <<CreatedEvent>>)
     ELSE IF ~callArgs.required THEN Refuse(InvalidRequest)
     ELSE Fetch(CompletionBody(ResponsesCompletionRequest(callArgs)),
                FALSE, <<>>)
  /\ UNCHANGED requestKept

\* POST /responses up to its first await: handleStreamingResponses when
\* stream is set, makeCompletionRequest otherwise
PostResponses ==
  /\ handler = "POST /responses"
  /\ pc = "received"
  /\ tracked' = Append(tracked, 0)
  /\ IF ~callArgs.required THEN Refuse(InvalidRequest)
     ELSE IF callArgs.token = "" THEN Refuse(AuthenticationRequired)
     ELSE IF callArgs.stream
       THEN Fetch(StreamingResponsesBody(callArgs), TRUE, <<CreatedEvent>>)
     ELSE Fetch(CompletionBody(ResponsesCompletionRequest(callArgs)),
                FALSE, <<>>)
  /\ UNCHANGED requestKept

\* the upstream call of a request with stream false settles: res.json on
\* success, next(error) otherwise
UpstreamAnswers(outcome) ==
  /\ handler \in RequestHandlers
  /\ pc = "awaitFetch"
  /\ ~callArgs.stream
  /\ outcome \in {"ok", "not_ok", "reject"}
  /\ IF outcome = "ok"
       THEN /\ pc' = "answered"
            /\ tracked' = Append(tracked, 0)
            /\ UNCHANGED <<errors, nextError>>
       ELSE /\ pc' = "failed"
            /\ errors' = Append(errors, ThrownError)
            /\ nextError' = 500
            /\ UNCHANGED tracked
  /\ UNCHANGED <<out, headersSent, resEnded, fetchCalls, writesBeforeFetch,
                 upstream>>
  /\ UNCHANGED requestKept

\* the upstream call of a streaming request settles: the reader handlers
\* are attached on success, the catch block writes the inline error and
\* ends the response otherwise
UpstreamOpens(outcome) ==
  /\ handler \in RequestHandlers
  /\ pc = "awaitFetch"
  /\ callArgs.stream
  /\ IF outcome = "ok"
       THEN /\ pc' = "streaming"
            /\ UNCHANGED <<out, resEnded>>
       ELSE /\ pc' = "failed"
            /\ out' = Append(out, IF handler = "POST /responses"
                                    THEN ErrorEvent ELSE ChunkErrorFrame)
            /\ resEnded' = TRUE
  /\ UNCHANGED <<headersSent, nextError, fetchCalls, writesBeforeFetch,
                 upstream, errors, tracked>>
  /\ UNCHANGED requestKept

RequestNext ==
  \/ \E outcome \in AuthOutcomes : RequireAuth(outcome)
  \/ PostCompletions
  \/ PostChatCompletions
  \/ PostResponses
  \/ \E outcome \in FetchOutcomes : UpstreamAnswers(outcome)
  \/ \E outcome \in FetchOutcomes : UpstreamOpens(outcome)

RequestSpec == RequestInit /\ [][RequestNext]_vars

\* the request passed requireAuth and the endpoint's handler has run
Handled == handler \in RequestHandlers /\ pc \notin {"arrived", "received"}
                                       /\ tracked # <<>>

\* the bodies sent to the chat endpoint
ChatBodies == {i \in DOMAIN upstream : upstream[i].url = "chat"}

(***************************************************************************)
(* C24: convertToolsForCopilot returns undefined, never an empty array,    *)
(* when no tools were given or every entry was filtered out, and on every  *)
(* request path no upstream body has a tools field holding an empty array. *)
(***************************************************************************)
C24_NeverEmptyTools ==
  Handled =>
    /\ convertToolsForCopilot(callArgs.tools) # Array(<<>>)
    /\ (~callArgs.tools.defined \/ ValidNames(callArgs.tools.items) = <<>>)
         => convertToolsForCopilot(callArgs.tools) = Undefined
    /\ \A i \in DOMAIN upstream : upstream[i].tools # Array(<<>>)

\* every entry of the request's tools was filtered out and the body was
\* sent without a tools field
C24_Witness ==
  /\ handler = "POST /responses"
  /\ callArgs.stream
  /\ callArgs.tools = Array(<<FunctionNoName>>)
  /\ Len(upstream) = 1
  /\ upstream[1].tools = Undefined

(***************************************************************************)
(* C25 (as claimed): on every request path, when the request carries       *)
(* tools, the tools field of the upstream chat body is exactly the         *)
(* normalizer's output for them (absent when that output is empty).        *)
(***************************************************************************)
C25_ToolsAreNormalized ==
  \A i \in ChatBodies :
    callArgs.tools.defined =>
      upstream[i].tools = convertToolsForCopilot(callArgs.tools)

(***************************************************************************)
(* C26 (as claimed): in every upstream chat body, max_tokens is the        *)
(* caller's value when supplied and non-zero and 4096 otherwise, and       *)
(* temperature, top_p and n are the caller's values whenever supplied,     *)
(* the defaults 0.7, 1 and 1 only when omitted.                            *)
(***************************************************************************)
C26_CallerValuesOrDefaults ==
  \A i \in ChatBodies :
    /\ upstream[i].max_tokens =
         (IF callArgs.max_tokens \notin {Absent, 0}
            THEN callArgs.max_tokens ELSE DefaultMaxTokens)
    /\ upstream[i].temperature =
         (IF callArgs.temperature # Absent
            THEN callArgs.temperature ELSE DefaultTemperature)
    /\ upstream[i].top_p =
         (IF callArgs.top_p # Absent THEN callArgs.top_p ELSE DefaultTopP)
    /\ upstream[i].n = (IF callArgs.n # Absent THEN callArgs.n ELSE DefaultN)

(***************************************************************************)
(* C27 (as claimed): every accepted request, streaming or not, issues      *)
(* exactly one upstream call, whose model (on the chat endpoint) is the    *)
(* alias resolution of the requested model; a failed call is not repeated. *)
(***************************************************************************)
C27_OneUpstreamCall ==
  (Handled /\ callArgs.required /\ callArgs.token # "") =>
    /\ Len(upstream) = 1
    /\ fetchCalls = 1
    /\ \A i \in ChatBodies :
         callArgs.model # "" =>
           upstream[i].model = mapToCopilotModel(callArgs.model)

CallerDisconnects ==
  /\ handler \in Handlers
  /\ pc = "streaming"
  /\ ~callerGone
  /\ callerGone' = TRUE
  /\ UNCHANGED <<pc, out, headersSent, resEnded, nextError, fetchCalls,
                 writesBeforeFetch, streamState, handler, callArgs,
                 callResult, upstream, errors, aborted, peer, serviceVars>>

DisconnectNext ==
  \/ StreamNext
  \/ CallerDisconnects

DisconnectSpec == StreamInit /\ [][DisconnectNext]_vars

\* after the caller is gone no frame is processed and nothing is written
C29_QuietAfterDisconnect ==
  callerGone => (received' = received /\ out' = out)

\* the stream is over
StreamOver == pc \in {"ended", "errored", "failed"}

(***************************************************************************)
(* C29 (as claimed): if the caller disconnects while a streaming request   *)
(* is in flight, the upstream request is aborted (at the latest when the   *)
(* stream is over), and no further upstream frame is processed or written. *)
(***************************************************************************)
C29_AbortOnDisconnect ==
  /\ [](callerGone /\ StreamOver => aborted)
  /\ [][C29_QuietAfterDisconnect]_vars

(***************************************************************************)
(* Two concurrent responses-mode streams                                   *)
(*                                                                         *)
(* Each call of handleStreamingResponses has its own responseId, outputId, *)
(* accumulatedText, firstChunk, completionSent, toolCallsReceived and      *)
(* totalChunks (local bindings) and its own res, and its callbacks run to  *)
(* completion one at a time.  The variables hold the call whose callback   *)
(* runs; peer holds the other call.                                        *)
(***************************************************************************)
\* upstream frames of the two streams
PairFrames == {HelFrame, LoFrame, DoneFrame}

\* the local state and the response of the call whose callback runs, kept
\* while callbacks of stream s run
Closure(s) ==
  [current |-> s, pc |-> pc, out |-> out, headersSent |-> headersSent,
   resEnded |-> resEnded, nextError |-> nextError, fetchCalls |-> fetchCalls,
   writesBeforeFetch |-> writesBeforeFetch,
   accumulatedText |-> accumulatedText, firstChunk |-> firstChunk,
   completionSent |-> completionSent,
   toolCallsReceived |-> toolCallsReceived, totalChunks |-> totalChunks,
   received |-> received, tracked |-> tracked]

\* a call that has not run yet
IdleClosure ==
  [current |-> 1, pc |-> "start", out |-> <<>>, headersSent |-> FALSE,
   resEnded |-> FALSE, nextError |-> 0, fetchCalls |-> 0,
   writesBeforeFetch |-> 0, accumulatedText |-> "", firstChunk |-> TRUE,
   completionSent |-> FALSE, toolCallsReceived |-> <<>>, totalChunks |-> 0,
   received |-> <<>>, tracked |-> <<>>]

PairInit ==
  /\ handler = "responses"
  /\ pc = "start"
  /\ out = <<>>
  /\ headersSent = FALSE
  /\ resEnded = FALSE
  /\ nextError = 0
  /\ fetchCalls = 0
  /\ writesBeforeFetch = 0
  /\ accumulatedText = ""
  /\ firstChunk = TRUE
  /\ completionSent = FALSE
  /\ toolCallsReceived = <<>>
  /\ totalChunks = 0
  /\ received = <<>>
  /\ tracked = <<>>
  /\ peer = IdleClosure
  /\ callArgs = <<>>
  /\ callResult = <<>>
  /\ upstream = <<>>
  /\ errors = <<>>
  /\ callerGone = FALSE
  /\ aborted = FALSE
  /\ ServiceIdle

\* mutant: accumulatedText is one binding shared by the two calls
OtherStreamRuns_SharedText ==
  /\ handler = "responses"
  /\ peer # NoPeer
  /\ pc' = peer.pc
  /\ out' = peer.out
  /\ headersSent' = peer.headersSent
  /\ resEnded' = peer.resEnded
  /\ nextError' = peer.nextError
  /\ fetchCalls' = peer.fetchCalls
  /\ writesBeforeFetch' = peer.writesBeforeFetch
  /\ firstChunk' = peer.firstChunk
  /\ completionSent' = peer.completionSent
  /\ toolCallsReceived' = peer.toolCallsReceived
  /\ totalChunks' = peer.totalChunks
  /\ received' = peer.received
  /\ tracked' = peer.tracked
  /\ peer' = Closure(3 - peer.current)
  /\ UNCHANGED <<accumulatedText, handler, callArgs, callResult, upstream,
                 errors, callerGone, aborted, serviceVars>>

\* the event loop takes up a callback of the other stream: its bindings
\* and its response are the ones the next callback sees
OtherStreamRuns ==
  /\ handler = "responses"
  /\ peer # NoPeer
  /\ pc' = peer.pc
  /\ out' = peer.out
  /\ headersSent' = peer.headersSent
  /\ resEnded' = peer.resEnded
  /\ nextError' = peer.nextError
  /\ fetchCalls' = peer.fetchCalls
  /\ writesBeforeFetch' = peer.writesBeforeFetch
  /\ accumulatedText' = peer.accumulatedText
  /\ firstChunk' = peer.firstChunk
  /\ completionSent' = peer.completionSent
  /\ toolCallsReceived' = peer.toolCallsReceived
  /\ totalChunks' = peer.totalChunks
  /\ received' = peer.received
  /\ tracked' = peer.tracked
  /\ peer' = Closure(3 - peer.current)
  /\ UNCHANGED <<handler, callArgs, callResult, upstream, errors, callerGone,
                 aborted, serviceVars>>

PairNext ==
  \/ OtherStreamRuns
  \/ StartStream
  \/ FetchOk
  \/ \E frame \in PairFrames : OnData(frame)
  \/ OnEnd
  \/ OnError

PairSpec == PairInit /\ [][PairNext]_vars

\* the state of stream s
View(s) == IF peer.current = s THEN Closure(s) ELSE peer

\* the latches of stream s
Latches(s) == <<View(s).firstChunk, View(s).completionSent>>

HasDone(frames) == \E i \in DOMAIN frames : frames[i].kind = "done"

\* stream s wrote only its own ids and only the text of its own frames, and
\* its latches are as its own frames set them
C30_OwnIdsTextLatches ==
  \A s \in {1, 2} :
    LET v == View(s)
    IN  /\ \A i \in DOMAIN v.out :
             v.out[i].id \in {"", ResponseIdOf(s), OutputIdOf(s)}
        /\ DeltaTexts(v.out) = NonEmptyFragments(v.received)
        /\ v.accumulatedText = FragmentsConcat(v.received)
        /\ v.firstChunk = (NonEmptyFragments(v.received) = <<>>)
        /\ HasDone(v.received) => v.completionSent
        /\ v.completionSent =>
             \/ HasDone(v.received)
             \/ v.pc = "ended" /\ v.accumulatedText # ""

\* a step that changes the latches of stream s is a callback of stream s
C30_LatchStep ==
  \A s \in {1, 2} :
    Latches(s)' # Latches(s) => (peer.current = s /\ peer'.current = s)

(***************************************************************************)
(* C30: for any interleaving of the callbacks of two concurrent            *)
(* responses-mode streams, each stream's events carry only its own         *)
(* response id and output item id and only text from its own upstream      *)
(* frames, and each stream's latches (firstChunk, completionSent) are      *)
(* changed only by its own frames.                                         *)
(***************************************************************************)
C30_StreamsIsolated ==
  /\ []C30_OwnIdsTextLatches
  /\ [][C30_LatchStep]_vars

\* both streams were fed: the first has "Hello" and is still open, the
\* second has "lo" as its own text and is completed
C30_Witness ==
  /\ peer # NoPeer
  /\ View(1).received = <<HelFrame, LoFrame>>
  /\ View(1).accumulatedText = "Hello"
  /\ ~View(1).completionSent
  /\ View(2).received = <<LoFrame, DoneFrame>>
  /\ View(2).accumulatedText = "lo"
  /\ View(2).completionSent
  /\ View(2).out[1].id = "resp_2"
  /\ View(1).out[1].id = "resp_1"

(***************************************************************************)
(* Token accounting of a stream                                            *)
(***************************************************************************)
\* the least whole number of tokens that covers n characters at four
\* characters a token
Ceil4(n) == CHOOSE k \in 0..n : 4 * k >= n /\ (k = 0 \/ 4 * (k - 1) < n)

\* one estimate per frame that carries text, in arrival order
RECURSIVE FragmentTokens(_)
FragmentTokens(frames) ==
  IF frames = <<>> THEN <<>>
  ELSE (IF Head(frames).kind = "json" /\ Head(frames).text # ""
          THEN <<Ceil4(Len(Head(frames).text))>> ELSE <<>>)
       \o FragmentTokens(Tail(frames))

RECURSIVE Sum(_)
Sum(numbers) ==
  IF numbers = <<>> THEN 0 ELSE Head(numbers) + Sum(Tail(numbers))

\* what the trackRequest calls of the stream add to usage.tokenCount
TokensAdded == Sum(tracked)

(***************************************************************************)
(* C31: in each of the three streaming handlers trackRequest is called     *)
(* once for every upstream frame that carries a non-empty text fragment,   *)
(* with ceil(length / 4) tokens, and is not called for a frame without     *)
(* text; the tokens a stream adds to the session's tokenCount are the sum  *)
(* of ceil(length / 4) over its non-empty fragments.                       *)
(***************************************************************************)
C31_TokensPerFragment ==
  /\ tracked = FragmentTokens(received)
  /\ TokensAdded = Sum(FragmentTokens(received))
  /\ \A i \in 1..Len(tracked) : tracked[i] >= 1

\* three frames arrived, one without text, and the two fragments were
\* counted as 1 and 2 tokens
C31_Witness ==
  /\ handler \in Handlers
  /\ Len(received) = 3
  /\ \E i \in 1..3 : received[i].kind = "json" /\ received[i].text = ""
  /\ tracked = <<1, 2>>
  /\ TokensAdded = 3

\* a tools list with an entry that has no function object: a flat or custom
\* entry, or one that is not an object
HasEntryWithoutFunction(tools) ==
  /\ tools.defined
  /\ \E i \in DOMAIN tools.items :
       tools.items[i].json # "object" \/ tools.items[i].function = <<>>

(***************************************************************************)
(* C33 (as claimed): building and sending a non-streaming chat request     *)
(* never throws because of a tool entry of an alternate or malformed       *)
(* shape: for a tools list with an entry that has no function object, the  *)
(* upstream call is still issued, with the entries normalized or omitted.  *)
(***************************************************************************)
C33_MalformedToolStillSent ==
  ( /\ Handled
    /\ handler = "POST /chat/completions"
    /\ ~callArgs.stream
    /\ callArgs.required
    /\ callArgs.token # ""
    /\ HasEntryWithoutFunction(callArgs.tools) ) =>
      /\ Len(upstream) = 1
      /\ fetchCalls = 1
      /\ upstream[1].tools = convertToolsForCopilot(callArgs.tools)
      /\ pc = "awaitFetch" => errors = <<>>

\* the outbound frame is the one the upstream frame calls for: the marker
\* for [DONE], an inline error for a frame that does not parse, a chunk
\* with the frame's text otherwise
Answers(written, frame) ==
  CASE frame.kind = "done" -> written.type = "[DONE]"
    [] frame.kind = "bad" -> written.type = "error"
    [] frame.kind = "json" ->
         /\ written.type = "chunk"
         /\ written.text = frame.text

(***************************************************************************)
(* C34: in the chunk variant the outbound frames are in one-to-one,        *)
(* order-preserving correspondence with the upstream frames: the k-th      *)
(* upstream frame produces exactly one outbound data frame (a chunk, the   *)
(* [DONE] marker, or an inline error), and that frame is written before    *)
(* upstream frame k+1 is processed.                                        *)
(***************************************************************************)
C34_FramePerFrame ==
  handler \in ChunkHandlers =>
    /\ Len(out) >= Len(received)
    /\ \A k \in 1..Len(received) : Answers(out[k], received[k])
    /\ pc = "streaming" => Len(out) = Len(received)

C34_FrameStep ==
  (handler \in ChunkHandlers /\ received' # received) =>
    /\ Len(out) = Len(received)
    /\ Len(received') = Len(received) + 1
    /\ Len(out') = Len(out) + 1
    /\ SubSeq(out', 1, Len(out)) = out
    /\ Answers(out'[Len(out')], received'[Len(received')])

C34_OneToOneInOrder == []C34_FramePerFrame /\ [][C34_FrameStep]_vars

\* a chunk without text, a malformed frame and the marker, each answered
\* by its own frame
C34_Witness ==
  /\ handler \in ChunkHandlers
  /\ pc = "streaming"
  /\ Len(received) = 3
  /\ received[1].kind = "json" /\ received[1].text = ""
                               /\ received[1].tool_calls = <<>>
  /\ received[2].kind = "bad"
  /\ received[3].kind = "done"
  /\ Len(out) = 3
  /\ out[1].type = "chunk" /\ out[2].type = "error" /\ out[3].type = "[DONE]"

\* the closing events of the message item
ClosesMessage(event) ==
  \/ event.type = "response.output_text.done"
  \/ event.type = "response.output_item.done" /\ event.item = "message"

(***************************************************************************)
(* C37 (as claimed): in responses mode response.output_text.done and       *)
(* response.output_item.done for the message item are written only after   *)
(* response.output_item.added and response.content_part.added for that     *)
(* item were written, for every upstream sequence, [DONE] without any text *)
(* fragment included.                                                      *)
(***************************************************************************)
C37_DoneOnlyAfterAdded ==
  handler = "responses" =>
    \A i \in DOMAIN out :
      ClosesMessage(out[i]) =>
        /\ \E j \in 1..(i - 1) :
             /\ out[j].type = "response.output_item.added"
             /\ out[j].item = "message"
             /\ out[j].id = out[i].id
        /\ \E j \in 1..(i - 1) :
             /\ out[j].type = "response.content_part.added"
             /\ out[j].id = out[i].id

(***************************************************************************)
(* convertResponsesInputToMessages (src/services/copilot-service.ts) and   *)
(* the message list POST /responses sends upstream                         *)
(***************************************************************************)
\* length of the structured input of a /v1/responses request
MaxItems == 3

\* item.content: a string, an array of parts, or absent
StringContent(text) == [kind |-> "string", text |-> text, parts |-> <<>>]
PartsContent(parts) == [kind |-> "parts", text |-> "", parts |-> parts]
NoContent == [kind |-> "absent", text |-> "", parts |-> <<>>]

\* a ResponsesInput item; "" is an absent type, role, call_id or output
Item(type, role, content, callId, output) ==
  [type |-> type, role |-> role, content |-> content, call_id |-> callId,
   output |-> output]

InputItems ==
  { Item("function_call_output", "", NoContent, id, output) :
      id \in {"", "call_a"}, output \in {"", "sunny"} }
  \cup { Item("function_call", "", NoContent, "call_a", ""),
         Item("reasoning", "", NoContent, "", ""),
         Item("message", "user", StringContent("hi"), "", ""),
         Item("message", "assistant",
              PartsContent(<<[type |-> "output_text", text |-> "It is "],
                             [type |-> "refusal", text |-> "no"],
                             [type |-> "text", text |-> "sunny"]>>), "", ""),
         Item("message", "developer", NoContent, "", ""),
         Item("", "tool", StringContent("raw"), "", "") }

\* input: a string or an array of items
StringInput(text) == [kind |-> "string", text |-> text, items |-> <<>>]
ArrayInput(items) == [kind |-> "array", text |-> "", items |-> items]

ResponsesInputs ==
  {StringInput("hi")} \cup {ArrayInput(items) : items \in ListsUpTo(InputItems, MaxItems)}

\* .filter(input_text | output_text | text).map(part => part.text).join('')
RECURSIVE JoinTextParts(_)
JoinTextParts(parts) ==
  IF parts = <<>> THEN ""
  ELSE (IF Head(parts).type \in {"input_text", "output_text", "text"}
          THEN Head(parts).text ELSE "")
       \o JoinTextParts(Tail(parts))

\* the content of the message built from a message item
ItemContent(content) ==
  CASE content.kind = "string" -> content.text
    [] content.kind = "parts" -> JoinTextParts(content.parts)
    [] OTHER -> ""

\* itemRole
ItemRole(role) ==
  CASE role = "user" -> "user"
    [] role = "assistant" -> "assistant"
    [] role = "system" -> "system"
    [] role = "developer" -> "system"
    [] OTHER -> "user"

\* mutant: a function_call item becomes an assistant message that carries
\* the call
ConvertItem_KeepsCalls(item) ==
  IF item.type = "function_call_output"
    THEN <<Message("tool", item.output, item.call_id, <<>>)>>
  ELSE IF item.type = "function_call"
    THEN <<Message("assistant", "", "", <<[id |-> item.call_id]>>)>>
  ELSE IF item.type = "message" \/ (item.role # "" /\ item.type = "")
    THEN <<Message(ItemRole(item.role), ItemContent(item.content), "", <<>>)>>
  ELSE <<>>

\* the body of the loop over the input array: the messages pushed for an item
ConvertItem(item) ==
  IF item.type = "function_call_output"
    THEN <<Message("tool", item.output, item.call_id, <<>>)>>
  ELSE IF item.type = "message" \/ (item.role # "" /\ item.type = "")
    THEN <<Message(ItemRole(item.role), ItemContent(item.content), "", <<>>)>>
  ELSE <<>>

RECURSIVE ConvertItems(_)
ConvertItems(items) ==
  IF items = <<>> THEN <<>>
  ELSE ConvertItem(Head(items)) \o ConvertItems(Tail(items))

convertResponsesInputToMessages(input, instructions) ==
  (IF instructions # "" THEN <<Message("system", instructions, "", <<>>)>>
                        ELSE <<>>)
  \o (IF input.kind = "string"
        THEN <<Message("user", input.text, "", <<>>)>>
        ELSE ConvertItems(input.items))

InputInit ==
  /\ handler = "convertResponsesInputToMessages"
  /\ pc = "call"
  /\ NoStream
  /\ callArgs \in [input : ResponsesInputs, instructions : {"", "Be brief"}]
  /\ callResult = <<>>

inputKept == <<handler, callArgs, out, headersSent, resEnded, nextError,
               writesBeforeFetch, streamState, errors, callerGone, aborted,
               peer, serviceVars>>

\* rawMessages = convertResponsesInputToMessages(input, instructions)
InputConvert ==
  /\ handler = "convertResponsesInputToMessages"
  /\ pc = "call"
  /\ callResult' = convertResponsesInputToMessages(callArgs.input,
                                                   callArgs.instructions)
  /\ pc' = "converted"
  /\ UNCHANGED <<inputKept, fetchCalls, upstream>>

\* messages = fixToolMessagePairing(rawMessages)
InputRepair ==
  /\ handler = "convertResponsesInputToMessages"
  /\ pc = "converted"
  /\ callResult' = fixToolMessagePairing(callResult)
  /\ pc' = "paired"
  /\ UNCHANGED <<inputKept, fetchCalls, upstream>>

\* handleStreamingResponses or makeCompletionRequest repairs the list once
\* more and sends it
InputSend ==
  /\ handler = "convertResponsesInputToMessages"
  /\ pc = "paired"
  /\ upstream' = Append(upstream, [url |-> "chat",
                                   messages |-> fixToolMessagePairing(callResult)])
  /\ fetchCalls' = fetchCalls + 1
  /\ pc' = "sent"
  /\ UNCHANGED <<inputKept, callResult>>

InputNext ==
  \/ InputConvert
  \/ InputRepair
  \/ InputSend

\* the input of a /v1/responses request on its way upstream
InputSpec == InputInit /\ [][InputNext]_vars

\* the items of the input that have a function_call_output with a call_id
CallOutputs(input) ==
  {i \in DOMAIN input.items :
     /\ input.items[i].type = "function_call_output"
     /\ input.items[i].call_id # ""}

\* the message is a user-role bracketed summary of the output
IsSummaryOf(msg, output) ==
  /\ msg.role = "user"
  /\ msg.tool_call_id = ""
  /\ msg.content = "[Previous tool result: " \o output \o "]"

\* the messages pushed for the items before item i
MessagesBefore(input, instructions, i) ==
  Len(convertResponsesInputToMessages(
        ArrayInput(SubSeq(input.items, 1, i - 1)), instructions))

(***************************************************************************)
(* C38: on /v1/responses, for every structured input, the message list     *)
(* sent upstream holds no tool-role message with a non-empty tool_call_id: *)
(* the conversion never produces an assistant message carrying tool_calls, *)
(* so every function_call_output that has a call_id goes upstream as a     *)
(* user-role bracketed summary of its output.                              *)
(***************************************************************************)
C38_NoToolMessageUpstream ==
  (handler = "convertResponsesInputToMessages" /\ pc = "sent") =>
    LET sent == upstream[1].messages
    IN  /\ \A k \in DOMAIN sent :
             /\ ~(sent[k].role = "tool" /\ sent[k].tool_call_id # "")
             /\ sent[k].tool_calls = <<>>
        /\ \A i \in CallOutputs(callArgs.input) :
             LET k == MessagesBefore(callArgs.input, callArgs.instructions, i) + 1
             IN  /\ k \in DOMAIN sent
                 /\ IsSummaryOf(sent[k], callArgs.input.items[i].output)

\* a function call, its output and a user message: the output went upstream
\* as a summary in second place, after the instructions
C38_Witness ==
  /\ handler = "convertResponsesInputToMessages"
  /\ pc = "sent"
  /\ callArgs.instructions # ""
  /\ callArgs.input.kind = "array"
  /\ Len(callArgs.input.items) = 3
  /\ callArgs.input.items[1].type = "function_call"
  /\ callArgs.input.items[2].type = "function_call_output"
  /\ callArgs.input.items[2].call_id = "call_a"
  /\ callArgs.input.items[2].output = "sunny"
  /\ Len(upstream[1].messages) = 3
  /\ upstream[1].messages[2] =
       Message("user", "[Previous tool result: sunny]", "", <<>>)

(***************************************************************************)
(* auth-service: the tokens, the device flow, the refresh, logout          *)
(***************************************************************************)
\* initiateDeviceFlow calls in one behaviour
MaxFlows == 2

\* clock steps in one behaviour
MaxTicks == 3

\* one clock step, in milliseconds
TickMs == 30000

\* the buffer of isTokenValid, in seconds
ExpiryBuffer == 60

\* seconds a Copilot token lasts from its issue: one that isTokenValid
\* never accepts and one that it accepts for a minute
Lifetimes == {60, 120}

\* Math.floor(Date.now() / 1000)
NowSeconds == now \div 1000

\* the JSON of the token endpoint
IssuedToken(lifetime) ==
  [token |-> "tid=1", expires_at |-> NowSeconds + lifetime]

\* fs.writeFileSync(TOKEN_FILE_PATH, {githubToken, copilotToken, savedAt})
SavedFile(github, copilot) ==
  [githubToken |-> github, copilotToken |-> copilot, saved |-> TRUE]

getCopilotToken == copilotToken

hasGithubToken == githubToken # ""

\* mutant: the token is used up to the second it expires
isTokenValid_NoBuffer ==
  IF copilotToken = NoToken \/ copilotToken.token = "" THEN FALSE
  ELSE NowSeconds < copilotToken.expires_at

isTokenValid ==
  IF copilotToken = NoToken \/ copilotToken.token = "" THEN FALSE
  ELSE NowSeconds < copilotToken.expires_at - ExpiryBuffer

\* who awaits a refreshCopilotToken call: requireAuth, or the device flow k
RequireAuthCaller == 0

\* one initiateDeviceFlow call: how far auth({type: "oauth"}) got and the
\* state of the promise the call returned
Flow(stage, promise) == [stage |-> stage, promise |-> promise]

\* resolve(...) or reject(...) of a promise: the first one settles it
Settle(promise, outcome) == IF promise = "pending" THEN outcome ELSE promise

\* Date.now() moves on
Tick ==
  /\ now + TickMs <= MaxTicks * TickMs
  /\ now' = now + TickMs
  /\ UNCHANGED <<pc, out, headersSent, resEnded, nextError, fetchCalls,
                 writesBeforeFetch, streamState, handler, callArgs,
                 callResult, upstream, errors, callerGone, aborted, peer,
                 authVars, requestTimestamps, inFlight>>

\* what the auth-service functions leave alone
authKept == <<out, headersSent, resEnded, writesBeforeFetch, accumulatedText,
              firstChunk, completionSent, toolCallsReceived, totalChunks,
              received, handler, callArgs, callerGone, aborted, peer, now,
              inFlight>>

\* what they leave alone of the request under way
requestIdle == <<pc, nextError, fetchCalls, upstream, errors, tracked,
                 callResult, requestTimestamps>>

\* the route handler that next() runs: trackRequest(sessionId, 0), then the
\* upstream chat call with the token getCopilotToken() returns
Route(token) ==
  /\ tracked' = Append(tracked, 0)
  /\ requestTimestamps' = Append(requestTimestamps, now)
  /\ IF token = NoToken
       THEN Refuse(AuthenticationRequired)
       ELSE /\ fetchCalls' = fetchCalls + 1
            /\ upstream' = Append(upstream, [url |-> "chat", token |-> token])
            /\ pc' = "awaitFetch"
            /\ UNCHANGED <<errors, nextError>>

\* next(error) of requireAuth: the route handler does not run
Unauthorized(error) ==
  /\ Refuse(error)
  /\ UNCHANGED <<tracked, requestTimestamps>>

\* requireAuth up to its await
RequireAuthEnters ==
  /\ handler = "requireAuth"
  /\ pc = "arrived"
  /\ IF isTokenValid
       THEN /\ Route(getCopilotToken)
            /\ UNCHANGED refreshCalls
     ELSE IF hasGithubToken
       THEN /\ refreshCalls' = refreshCalls \cup {RequireAuthCaller}
            /\ pc' = "refreshing"
            /\ UNCHANGED <<nextError, fetchCalls, upstream, errors, tracked,
                           requestTimestamps>>
     ELSE /\ Unauthorized(AuthenticationRequired)
          /\ UNCHANGED refreshCalls
  /\ UNCHANGED <<githubToken, copilotToken, pendingVerification, tokenFile,
                 deviceFlows, callResult, authKept>>

\* the fetch of a refreshCopilotToken call settles, and the caller that
\* awaits it continues
RefreshSettles(caller, outcome, lifetime) ==
  /\ handler = "requireAuth"
  /\ caller \in refreshCalls
  /\ outcome \in {"ok", "not_ok", "reject"}
  /\ refreshCalls' = refreshCalls \ {caller}
  /\ IF outcome = "ok"
       THEN /\ copilotToken' = IssuedToken(lifetime)
            /\ tokenFile' = SavedFile(githubToken, copilotToken')
       ELSE UNCHANGED <<copilotToken, tokenFile>>
  /\ IF caller = RequireAuthCaller
       THEN /\ callResult' = outcome
            /\ IF outcome = "ok"
                 THEN Route(copilotToken')
                 ELSE Unauthorized(AuthenticationRequired)
       ELSE UNCHANGED requestIdle
  /\ UNCHANGED <<githubToken, pendingVerification, deviceFlows, authKept>>

clearTokens ==
  /\ handler = "requireAuth"
  /\ githubToken' = ""
  /\ copilotToken' = NoToken
  /\ tokenFile' = NoFile
  /\ UNCHANGED <<pendingVerification, refreshCalls, deviceFlows, requestIdle,
                 authKept>>

\* verification.user_code of the k-th flow
UserCode(k) == IF k = 1 THEN "WDJB-MJHT" ELSE "ABCD-1234"

\* initiateDeviceFlow(): the promise is created and the device
\* authorization request is on its way
initiateDeviceFlow ==
  /\ handler = "requireAuth"
  /\ Len(deviceFlows) < MaxFlows
  /\ deviceFlows' = Append(deviceFlows, Flow("requesting", "pending"))
  /\ UNCHANGED <<githubToken, copilotToken, pendingVerification, tokenFile,
                 refreshCalls, requestIdle, authKept>>

\* onVerification of flow k: the device code arrived
onVerification(k) ==
  /\ handler = "requireAuth"
  /\ k \in DOMAIN deviceFlows
  /\ deviceFlows[k].stage = "requesting"
  /\ pendingVerification' = UserCode(k)
  /\ deviceFlows' = [deviceFlows EXCEPT
                       ![k] = Flow("polling", Settle(@.promise, "resolved"))]
  /\ UNCHANGED <<githubToken, copilotToken, tokenFile, refreshCalls,
                 requestIdle, authKept>>

\* auth({type: "oauth"}) of flow k rejects: the device authorization
\* request failed, or the code expired or was denied while polling
AuthRejects(k) ==
  /\ handler = "requireAuth"
  /\ k \in DOMAIN deviceFlows
  /\ deviceFlows[k].stage \in {"requesting", "polling"}
  /\ deviceFlows' = [deviceFlows EXCEPT
                       ![k] = Flow("failed",
                                   IF pendingVerification = ""
                                     THEN Settle(@.promise, "rejected")
                                     ELSE @.promise)]
  /\ UNCHANGED <<githubToken, copilotToken, pendingVerification, tokenFile,
                 refreshCalls, requestIdle, authKept>>

\* auth({type: "oauth"}) of flow k resolves with the GitHub token: it is
\* stored and saved, and a refresh is started and not awaited
AuthResolves(k) ==
  /\ handler = "requireAuth"
  /\ k \in DOMAIN deviceFlows
  /\ deviceFlows[k].stage = "polling"
  /\ deviceFlows' = [deviceFlows EXCEPT ![k].stage = "authorized"]
  /\ githubToken' = "gho_1"
  /\ tokenFile' = SavedFile(githubToken', copilotToken)
  /\ refreshCalls' = refreshCalls \cup {k}
  /\ UNCHANGED <<copilotToken, pendingVerification, requestIdle, authKept>>

AuthInit ==
  /\ handler = "requireAuth"
  /\ pc = "arrived"
  /\ NoStream
  /\ callArgs = <<>>
  /\ callResult = "none"

AuthNext ==
  \/ Tick
  \/ RequireAuthEnters
  \/ \E caller \in 0..MaxFlows, outcome \in FetchOutcomes,
        lifetime \in Lifetimes : RefreshSettles(caller, outcome, lifetime)
  \/ clearTokens
  \/ initiateDeviceFlow
  \/ \E k \in 1..MaxFlows : onVerification(k)
  \/ \E k \in 1..MaxFlows : AuthRejects(k)
  \/ \E k \in 1..MaxFlows : AuthResolves(k)

\* one request to a protected route while users log in and out
AuthSpec == AuthInit /\ [][AuthNext]_vars

\* the request went on to its route handler, which issued the chat call
LetThrough ==
  /\ pc' = "awaitFetch"
  /\ fetchCalls' = 1
  /\ Len(upstream') = 1
  /\ errors' = <<>>
  /\ nextError' = 0

\* the request was answered 401 and nothing was called upstream
Answered401 ==
  /\ pc' = "rejected"
  /\ nextError' = 401
  /\ Len(errors') = 1
  /\ errors'[1].status = 401
  /\ errors'[1].code \in {"authentication_required", "authentication_failed"}
  /\ fetchCalls' = 0
  /\ upstream' = <<>>

(***************************************************************************)
(* C32: requireAuth lets a request through exactly when the Copilot token  *)
(* is valid (now < expires_at - 60 s) or a GitHub token is stored and      *)
(* refreshCopilotToken succeeds; with an expired or missing Copilot token  *)
(* and a stored GitHub token the refresh is started by requireAuth itself; *)
(* in every other case the request is answered 401 authentication_required *)
(* or authentication_failed and no upstream chat call is made.             *)
(***************************************************************************)
C32_AuthStep ==
  /\ (handler = "requireAuth" /\ pc = "arrived" /\ pc' # "arrived") =>
       IF /\ copilotToken.token # ""
          /\ now \div 1000 < copilotToken.expires_at - ExpiryBuffer
         THEN LetThrough /\ refreshCalls' = refreshCalls
       ELSE IF githubToken # ""
         THEN /\ pc' = "refreshing"
              /\ RequireAuthCaller \in refreshCalls'
              /\ fetchCalls' = 0
       ELSE Answered401
  /\ (handler = "requireAuth" /\ pc = "refreshing" /\ pc' # "refreshing") =>
       /\ callResult' \in {"ok", "not_ok", "reject"}
       /\ IF callResult' = "ok"
            THEN LetThrough /\ upstream'[1].token = copilotToken'
                            /\ tokenFile'.copilotToken = copilotToken'
            ELSE Answered401

C32_Outcome ==
  handler = "requireAuth" =>
    /\ pc \in {"arrived", "refreshing", "awaitFetch", "rejected"}
    /\ pc \in {"arrived", "refreshing"} => fetchCalls = 0 /\ upstream = <<>>
    /\ pc = "rejected" => fetchCalls = 0 /\ upstream = <<>> /\ nextError = 401
    /\ pc = "awaitFetch" => fetchCalls = 1 /\ nextError = 0

C32_ThroughIffValidOrRefreshed == []C32_Outcome /\ [][C32_AuthStep]_vars

\* a minute and a half after start a request was let through with the
\* token that the refresh started by requireAuth had just stored
C32_Witness ==
  /\ handler = "requireAuth"
  /\ pc = "awaitFetch"
  /\ callResult = "ok"
  /\ now >= 3 * TickMs
  /\ githubToken # ""
  /\ upstream[1].token = copilotToken
  /\ tokenFile = SavedFile(githubToken, copilotToken)

\* the state clearTokens leaves: no token in memory, none on disk
LoggedOut ==
  /\ githubToken = ""
  /\ getCopilotToken = NoToken
  /\ ~isTokenValid
  /\ tokenFile = NoFile

(***************************************************************************)
(* C39 (as claimed): after clearTokens, getCopilotToken returns null,      *)
(* isTokenValid is false and no token is stored on disk until a new        *)
(* device-flow login succeeds, whatever refreshCopilotToken call was in    *)
(* flight when the tokens were cleared.                                    *)
(***************************************************************************)
C39_LogoutStep ==
  (handler = "requireAuth" /\ LoggedOut /\ githubToken' = "") => LoggedOut'

C39_LoggedOutUntilLogin == [][C39_LogoutStep]_vars

(***************************************************************************)
(* C40 (as claimed): every call of initiateDeviceFlow settles: its promise *)
(* is resolved with the verification info once verification was           *)
(* requested, and rejected when the device authorization failed before     *)
(* that, also for a call made after an earlier call had stored its         *)
(* verification info.  A flow that left the "requesting" stage is never    *)
(* touched again before its promise is settled, so the promise of a call   *)
(* is settled by the time its authorization has got past that stage.       *)
(***************************************************************************)
C40_EveryFlowSettles ==
  handler = "requireAuth" =>
    \A k \in DOMAIN deviceFlows :
      /\ deviceFlows[k].stage \in {"polling", "authorized"} =>
           deviceFlows[k].promise = "resolved"
      /\ deviceFlows[k].stage = "failed" =>
           deviceFlows[k].promise \in {"resolved", "rejected"}

(***************************************************************************)
(* The rate limiter (middleware/rate-limiter) and the request window of    *)
(* usage-service                                                           *)
(***************************************************************************)
\* requests that arrive in one behaviour
MaxArrivals == 3

\* admitted requests of one kind open at a time
MaxOpen == 2

\* entries of the window in one behaviour
MaxStamps == 4

\* the window of checkRateLimit: 60 * 1000
WindowMs == 60000

\* the age at which trackRequest drops a timestamp: 5 * 60 * 1000
KeepMs == 300000

\* RATE_LIMIT_DEFAULT and RATE_LIMIT_CHAT_COMPLETIONS of the deployment
RateLimitSettings == [default : {2, 3}, chatCompletions : {1}]

\* ROUTE_RATE_LIMITS
ROUTE_RATE_LIMITS(settings) ==
  "/v1/chat/completions" :> settings.chatCompletions

\* req.path of the requests, as the router mounted at /v1 sees it
RequestPaths == {"/chat/completions", "/responses"}

\* maxRequestsPerMinute || routeLimit || config.rateLimits.default, with 0
\* for an absent override
EffectiveLimit(maxRequestsPerMinute, path, settings) ==
  IF maxRequestsPerMinute # 0 THEN maxRequestsPerMinute
  ELSE IF path \in DOMAIN ROUTE_RATE_LIMITS(settings)
            /\ ROUTE_RATE_LIMITS(settings)[path] # 0
    THEN ROUTE_RATE_LIMITS(settings)[path]
  ELSE settings.default

\* requestTimestamps.filter(ts => ts >= oneMinuteAgo)
RECURSIVE Since(_, _)
Since(timestamps, start) ==
  IF timestamps = <<>> THEN <<>>
  ELSE (IF Head(timestamps) >= start THEN <<Head(timestamps)>> ELSE <<>>)
       \o Since(Tail(timestamps), start)

\* .sort((a, b) => a - b)[0]
Oldest(timestamps) ==
  CHOOSE t \in {timestamps[i] : i \in DOMAIN timestamps} :
    \A i \in DOMAIN timestamps : t <= timestamps[i]

\* Math.ceil(ms / 1000) for ms >= 0
CeilSeconds(ms) == (ms + 999) \div 1000

Max(a, b) == IF a >= b THEN a ELSE b

checkRateLimit(timestamps, maxRequestsPerMinute) ==
  LET recent == Since(timestamps, now - WindowMs)
  IN  IF Len(recent) >= maxRequestsPerMinute
        THEN [limited |-> TRUE,
              retryAfter |->
                Max(1, CeilSeconds(Oldest(recent) + WindowMs - now))]
        ELSE [limited |-> FALSE, retryAfter |-> 0]

\* trackRequest(sessionId, tokenCount): the window and the token count
trackRequest(tokenCount) ==
  /\ requestTimestamps' = Since(Append(requestTimestamps, now), now - KeepMs)
  /\ tracked' = Append(tracked, tokenCount)

\* clock steps in one behaviour of the limiter
MaxRateTicks == 2

\* the clock steps of the limiter's behaviours: half a minute, or half a
\* second more
HalfSecond == 500
RateTicks == {TickMs, TickMs + HalfSecond}

\* usage.total_tokens of an upstream answer
AnswerTokens == 12

\* what the limiter answered to the n-th request that arrived
LimiterAnswer(n, answer) ==
  [n |-> n, limited |-> answer.limited, retryAfter |-> answer.retryAfter,
   status |-> IF answer.limited THEN 429 ELSE 0,
   type |-> IF answer.limited THEN "rate_limit_exceeded" ELSE ""]

rateKept == <<pc, out, headersSent, resEnded, nextError, writesBeforeFetch,
              accumulatedText, firstChunk, completionSent, toolCallsReceived,
              totalChunks, received, handler, callArgs, errors, callerGone,
              aborted, peer, authVars>>

RateInit ==
  /\ handler = "rateLimiter"
  /\ pc = "listening"
  /\ NoStream
  /\ callArgs \in RateLimitSettings
  /\ callResult = LimiterAnswer(0, [limited |-> FALSE, retryAfter |-> 0])

RateTick(d) ==
  /\ handler = "rateLimiter"
  /\ now + d <= MaxRateTicks * (TickMs + HalfSecond)
  /\ now' = now + d
  /\ UNCHANGED <<rateKept, callResult, requestTimestamps, tracked, upstream,
                 fetchCalls, inFlight>>

\* a request of the session arrives: rateLimiter() and, when it calls
\* next(), the route handler up to its upstream call (requireAuth finds a
\* valid token); the token checks of the limiter are behind
\* route === '/v1/chat/completions', which no req.path under the mount is
Arrives(path, kind) ==
  /\ handler = "rateLimiter"
  /\ callResult.n < MaxArrivals
  /\ LET answer == checkRateLimit(requestTimestamps,
                                  EffectiveLimit(0, path, callArgs))
     IN  /\ callResult' = LimiterAnswer(callResult.n + 1, answer)
         /\ IF answer.limited
              THEN UNCHANGED <<requestTimestamps, tracked, upstream,
                               fetchCalls, inFlight>>
              ELSE /\ inFlight[kind] < MaxOpen
                   /\ Len(requestTimestamps) < MaxStamps
                   /\ trackRequest(0)
                   /\ upstream' = Append(upstream,
                                         [url |-> "chat", at |-> now])
                   /\ fetchCalls' = fetchCalls + 1
                   /\ inFlight' = [inFlight EXCEPT ![kind] = @ + 1]
  /\ UNCHANGED <<rateKept, now>>

\* onEvent of an open stream gets a frame with text
Fragment(text) ==
  /\ handler = "rateLimiter"
  /\ inFlight.stream > 0
  /\ text # ""
  /\ Len(requestTimestamps) < MaxStamps
  /\ trackRequest(EstimatedTokens(text))
  /\ UNCHANGED <<rateKept, now, callResult, upstream, fetchCalls, inFlight>>

\* the body of an open stream ends
StreamEnds ==
  /\ handler = "rateLimiter"
  /\ inFlight.stream > 0
  /\ inFlight' = [inFlight EXCEPT !.stream = @ - 1, !.streamEnded = now]
  /\ UNCHANGED <<rateKept, now, callResult, upstream, fetchCalls,
                 requestTimestamps, tracked>>

\* makeCompletionRequest of an open request settles: on success the route
\* handler records the tokens used
PlainAnswers(outcome) ==
  /\ handler = "rateLimiter"
  /\ inFlight.plain > 0
  /\ outcome \in {"ok", "not_ok", "reject"}
  /\ IF outcome = "ok"
       THEN /\ Len(requestTimestamps) < MaxStamps
            /\ trackRequest(AnswerTokens)
       ELSE UNCHANGED <<requestTimestamps, tracked>>
  /\ inFlight' = [inFlight EXCEPT !.plain = @ - 1]
  /\ UNCHANGED <<rateKept, now, callResult, upstream, fetchCalls>>

RateNext ==
  \/ \E d \in RateTicks : RateTick(d)
  \/ \E path \in RequestPaths, kind \in {"stream", "plain"} :
       Arrives(path, kind)
  \/ \E text \in Fragments : Fragment(text)
  \/ StreamEnds
  \/ \E outcome \in FetchOutcomes : PlainAnswers(outcome)

\* the requests of one session
RateSpec == RateInit /\ [][RateNext]_vars

\* the API requests of the session that were admitted at or after `start`
AcceptedSince(start) ==
  Cardinality({i \in DOMAIN upstream : upstream[i].at >= start})

\* the limit that the limiter applies to the requests of the session
SessionLimit == EffectiveLimit(0, "/chat/completions", callArgs)

(***************************************************************************)
(* C35 (as claimed): the limiter counts requests: a request is answered    *)
(* 429 rate_limit_exceeded exactly when at least the effective per-minute  *)
(* limit of API requests of the session were admitted within the preceding *)
(* 60 seconds; the text fragments of a streamed response and the           *)
(* token-usage update of a request do not count as requests.               *)
(***************************************************************************)
C35_LimiterStep ==
  (handler = "rateLimiter" /\ callResult'.n = callResult.n + 1) =>
    /\ callResult'.limited <=> AcceptedSince(now - WindowMs) >= SessionLimit
    /\ callResult'.limited =>
         callResult'.status = 429 /\ callResult'.type = "rate_limit_exceeded"

C35_CountsRequestsOnly == [][C35_LimiterStep]_vars

\* the session had no stream in flight and no request admitted during the
\* last 60 seconds
QuietForAMinute ==
  /\ inFlight.stream = 0
  /\ inFlight.streamEnded < now - WindowMs
  /\ AcceptedSince(now - WindowMs) = 0

(***************************************************************************)
(* C36 (as claimed): a rate-limited session is admitted again: a request   *)
(* answered 429 adds no timestamp to the window, so once the session has   *)
(* had no stream in flight and no request admitted for 60 seconds          *)
(* checkRateLimit reports it as not limited; while it is limited the       *)
(* retryAfter reported is at least 1 second.                               *)
(***************************************************************************)
C36_RejectedStep ==
  (handler = "rateLimiter" /\ callResult'.n = callResult.n + 1
                           /\ callResult'.limited) =>
    /\ requestTimestamps' = requestTimestamps
    /\ callResult'.retryAfter >= 1

C36_QuietIsAdmitted ==
  (handler = "rateLimiter" /\ QuietForAMinute) =>
    ~checkRateLimit(requestTimestamps, SessionLimit).limited

C36_AdmittedAgain == []C36_QuietIsAdmitted /\ [][C36_RejectedStep]_vars

=============================================================================
